---- MODULE Spec2Model ----
(***************************************************************************)
(* A model of cpsat_dbap: the data model (ProcessingTime,                  *)
(* HalfOpenInterval, DBAPInstance, Solution), the greedy                   *)
(* Earliest-Deadline-First heuristic and the CP-SAT encoding built by      *)
(* solve.                                                                  *)
(*                                                                         *)
(* Conventions.  A Python list is a TLA+ sequence; At(l, i) is l[i], so    *)
(* vessel and berth indices are 0-based as in the source.  A               *)
(* ProcessingTime is modelled by its integer field `time`.  A value that   *)
(* may be an object, None or a raised exception is a record with a `tag`.  *)
(***************************************************************************)
EXTENDS Integers, Sequences, FiniteSets, TLC

VARIABLES
    instance,          \* the DBAPInstance handed to greedy_heuristic / solve
    use_hints,         \* SolverConfig.use_hints
    pc,                \* position in greedy_heuristic / solve
    sorted_vessels,    \* greedy_heuristic: vessels in priority order
    k,                 \* greedy_heuristic: number of vessels of sorted_vessels done
    berth_free_times,  \* greedy_heuristic: per-berth next-free-time cursor
    v_berths,          \* greedy_heuristic: berth of each vessel
    v_starts,          \* greedy_heuristic: start of each vessel
    v_ends,            \* greedy_heuristic: end of each vessel
    greedy_sol,        \* the value greedy_heuristic returned (NotYet before)
    horizon,           \* solve: the horizon (NotYet before it is computed)
    model,             \* solve: the CpModel built so far (NotYet before)
    engine,            \* what solver.Solve returned (NotYet: never invoked)
    result,            \* the value solve returned (NotYet before)
    args,              \* constructor arguments of the object under construction
    obj                \* the constructed object, or the error raised

vars == << instance, use_hints, pc, sorted_vessels, k, berth_free_times,
           v_berths, v_starts, v_ends, greedy_sol, horizon, model, engine,
           result, args, obj >>

-----------------------------------------------------------------------------
(* Bounds of the model *)

\* times (arrivals, deadlines, window bounds) range over 0..MaxTime
MaxTime == 2
\* valid durations range over 0..MaxDur
MaxDur == 1

\* constructor arguments are lists of at most MaxLen elements
MaxLen == 2

\* numbers of vessels and of berths of the instances explored
VesselCounts == {0, 1, 2}
BerthCounts == {0, 1, 2}

-----------------------------------------------------------------------------
(* Python values *)

NotYet == [tag |-> "NotYet"]
None == [tag |-> "None"]
ValueError(m) == [tag |-> "ValueError", msg |-> m]

At(l, i) == l[i + 1]

Max2(a, b) == IF a >= b THEN a ELSE b
Max3(a, b, c) == Max2(Max2(a, b), c)

RECURSIVE SumSeq(_)
SumSeq(s) == IF s = << >> THEN 0 ELSE Head(s) + SumSeq(Tail(s))

RECURSIVE MaxSeq(_)
\* max() of a non-empty list
MaxSeq(s) == IF Len(s) = 1 THEN s[1] ELSE Max2(Head(s), MaxSeq(Tail(s)))

Range0(n) == 0 .. (n - 1)

-----------------------------------------------------------------------------
(* ProcessingTime *)

INVALID_PROCESSING_TIME == -1

is_valid(pt) == pt >= 0
is_invalid_never(pt) == FALSE

is_invalid(pt) == pt < 0

\* ProcessingTime.value(); defined only where is_valid (it raises otherwise)
value(pt) == pt

-----------------------------------------------------------------------------
(* HalfOpenInterval *)

\* HalfOpenInterval(start, end): the interval, or the ValueError of __post_init__
HalfOpenInterval(s, e) ==
    IF e < s THEN ValueError("Interval end must be >= start")
    ELSE [tag |-> "HalfOpenInterval", start_inclusive |-> s, end_exclusive |-> e]

overlaps_touching(x, y) ==
    (x.start_inclusive <= y.end_exclusive) /\ (y.start_inclusive <= x.end_exclusive)

overlaps(x, y) ==
    (x.start_inclusive < y.end_exclusive) /\ (y.start_inclusive < x.end_exclusive)

-----------------------------------------------------------------------------
(* Solution *)

Paradox_never(start, end) == FALSE

\* line 86: the temporal-causality check fails
Paradox(start, end) == end < start

Turnaround_from_start(end, arrival) == arrival - end

\* line 91
Turnaround(end, arrival) == end - arrival

RECURSIVE SolutionLoop(_, _, _, _, _, _)
\* the per-vessel loop of Solution.__post_init__, from vessel i on; acc holds
\* turnaround, weighted, total_ta, total_wta
SolutionLoop(i, starts, ends, weights, arrivals, acc) ==
    IF i >= Len(starts) THEN acc
    ELSE LET start == At(starts, i)
             end == At(ends, i)
             arrival == At(arrivals, i)
             w == At(weights, i)
             ta == Turnaround(end, arrival)
             wta == ta * w
         IN  IF Paradox(start, end)
             THEN ValueError("Temporal paradox")
             ELSE SolutionLoop(i + 1, starts, ends, weights, arrivals,
                      [tag |-> "acc",
                       turnaround |-> Append(acc.turnaround, ta),
                       weighted |-> Append(acc.weighted, wta),
                       total_ta |-> acc.total_ta + ta,
                       total_wta |-> acc.total_wta + wta])

\* Solution(vessel_berths, vessel_start_times, vessel_end_times, weights,
\* arrival_times): the constructed Solution, or the ValueError raised
NewSolution(berths, starts, ends, weights, arrivals) ==
    LET n == Len(berths) IN
    IF Len(starts) # n THEN ValueError("vessel_start_times")
    ELSE IF Len(ends) # n THEN ValueError("vessel_end_times")
    ELSE IF Len(weights) # n THEN ValueError("weights")
    ELSE IF Len(arrivals) # n THEN ValueError("arrival_times")
    ELSE LET r == SolutionLoop(0, starts, ends, weights, arrivals,
                      [tag |-> "acc", turnaround |-> << >>, weighted |-> << >>,
                       total_ta |-> 0, total_wta |-> 0])
         IN  IF r.tag = "ValueError" THEN r
             ELSE [tag |-> "Solution",
                   vessel_berths |-> berths,
                   vessel_start_times |-> starts,
                   vessel_end_times |-> ends,
                   vessel_turnaround_times |-> r.turnaround,
                   vessel_weighted_turnaround_times |-> r.weighted,
                   total_turnaround_time |-> r.total_ta,
                   total_weighted_turnaround_time |-> r.total_wta]

EmptySolution_none == None

\* Solution([], [], [], [], []), returned for an instance without vessels
EmptySolution == NewSolution(<< >>, << >>, << >>, << >>, << >>)

makespan(sol) ==
    IF sol.vessel_end_times = << >> THEN 0 ELSE MaxSeq(sol.vessel_end_times)

True == [tag |-> "True"]

\* Solution.validate(): True, or the ValueError raised
validate(sol) ==
    LET n == Len(sol.vessel_berths) IN
    IF \E vec \in { sol.vessel_start_times, sol.vessel_end_times,
                    sol.vessel_turnaround_times,
                    sol.vessel_weighted_turnaround_times } : Len(vec) # n
    THEN ValueError("Vector length mismatch detected in solution state")
    ELSE IF \E i \in Range0(n) :
                At(sol.vessel_end_times, i) < At(sol.vessel_start_times, i)
         THEN ValueError("Invalid timing")
         ELSE True

-----------------------------------------------------------------------------
(* DBAPInstance *)

\* DBAPInstance(...): the instance, or the ValueError of __post_init__
NewInstance(n, m, weights, arrivals, deadlines, pts, windows) ==
    IF Len(weights) # n THEN ValueError("vessel_weights length mismatch")
    ELSE IF Len(arrivals) # n THEN ValueError("arrival_times length mismatch")
    ELSE IF Len(deadlines) # n THEN ValueError("latest_departure_times length mismatch")
    ELSE IF Len(pts) # n THEN ValueError("processing matrix rows mismatch")
    ELSE IF \E r \in 1 .. Len(pts) : Len(pts[r]) # m
         THEN ValueError("processing matrix columns mismatch")
    ELSE IF Len(windows) # m THEN ValueError("berth intervals length mismatch")
    ELSE [num_vessels |-> n, num_berths |-> m, vessel_weights |-> weights,
          arrival_times |-> arrivals, latest_departure_times |-> deadlines,
          processing_times |-> pts, berth_opening_times |-> windows]

-----------------------------------------------------------------------------
(* The instances explored *)

Times == 0 .. MaxTime
Durations == {INVALID_PROCESSING_TIME} \cup (0 .. MaxDur)
Windows == { HalfOpenInterval(s, e) : s \in Times, e \in Times } \ { ValueError("Interval end must be >= start") }

\* the (arrival, deadline) pairs of a vessel: every pair for the smaller
\* instances, arrival <= deadline (as parse_instance guarantees) for the largest
Schedulable(n, m) == { ad \in Times \X Times : n * m < 4 \/ ad[1] <= ad[2] }

\* the weights: 1 (the default of parse_instance) and 2 for the smaller
\* instances, the default for the largest
WeightsOf(n, m) == IF n * m < 4 THEN {1, 2} ELSE {1}

\* inst is some DBAPInstance of n vessels and m berths
IsInstanceOf(inst, n, m, WeightSet) ==
    \E w \in [1 .. n -> WeightSet], ad \in [1 .. n -> Schedulable(n, m)],
       p \in [1 .. n -> [1 .. m -> Durations]], o \in [1 .. m -> Windows] :
         inst = [num_vessels |-> n, num_berths |-> m, vessel_weights |-> w,
                 arrival_times |-> [v \in 1 .. n |-> ad[v][1]],
                 latest_departure_times |-> [v \in 1 .. n |-> ad[v][2]],
                 processing_times |-> p, berth_opening_times |-> o]

-----------------------------------------------------------------------------
(* greedy_heuristic *)

SortKey_arrival_first(inst, v) ==
    << At(inst.arrival_times, v), At(inst.latest_departure_times, v) >>

\* the sort key of line 79
SortKey(inst, v) == << At(inst.latest_departure_times, v), At(inst.arrival_times, v) >>

\* tuple comparison of two sort keys
KeyLess(a, b) == a[1] < b[1] \/ (a[1] = b[1] /\ a[2] < b[2])

RECURSIVE InsertSorted(_, _, _)
\* v inserted into the sorted list s behind every element whose key is not
\* greater (sorted() is stable)
InsertSorted(inst, s, v) ==
    IF s = << >> THEN << v >>
    ELSE IF KeyLess(SortKey(inst, v), SortKey(inst, Head(s)))
         THEN << v >> \o s
         ELSE << Head(s) >> \o InsertSorted(inst, Tail(s), v)

RECURSIVE SortedFrom(_, _, _)
SortedFrom(inst, v, s) ==
    IF v >= inst.num_vessels THEN s
    ELSE SortedFrom(inst, v + 1, InsertSorted(inst, s, v))

\* sorted(range(num_vessels), key=(deadline, arrival))
SortVessels(inst) == SortedFrom(inst, 0, << >>)

\* line 111: the earliest start of a vessel on a berth
possible_start_nocursor(arrival, free, wstart) == Max2(arrival, wstart)
possible_start(arrival, free, wstart) == Max3(arrival, free, wstart)

NoBest == [inf |-> TRUE, best_finish |-> 0, best_start |-> -1, best_b_id |-> -1]

CandidateFits_window_only(possible_end, finish, deadline) == possible_end <= finish

\* line 115
CandidateFits(possible_end, finish, deadline) ==
    (possible_end <= finish) /\ (possible_end <= deadline)

Improves_or_ties(possible_end, best) == best.inf \/ possible_end <= best.best_finish

\* line 117: best_finish starts at float('inf')
Improves(possible_end, best) == best.inf \/ possible_end < best.best_finish

RECURSIVE ScanBerths(_, _, _, _, _)
\* the loop of lines 101-120 from berth b_id on
ScanBerths(inst, v_id, free, b_id, best) ==
    IF b_id >= inst.num_berths THEN best
    ELSE LET pt == At(At(inst.processing_times, v_id), b_id) IN
         IF is_invalid(pt) THEN ScanBerths(inst, v_id, free, b_id + 1, best)
         ELSE LET arrival == At(inst.arrival_times, v_id)
                  deadline == At(inst.latest_departure_times, v_id)
                  duration == value(pt)
                  berth_window == At(inst.berth_opening_times, b_id)
                  p_start == possible_start(arrival, At(free, b_id),
                                            berth_window.start_inclusive)
                  p_end == p_start + duration
              IN  IF /\ CandidateFits(p_end, berth_window.end_exclusive, deadline)
                     /\ Improves(p_end, best)
                  THEN ScanBerths(inst, v_id, free, b_id + 1,
                           [inf |-> FALSE, best_finish |-> p_end,
                            best_start |-> p_start, best_b_id |-> b_id])
                  ELSE ScanBerths(inst, v_id, free, b_id + 1, best)

Zeros(n) == [i \in 1 .. n |-> 0]

SetAt(l, i, x) == [l EXCEPT ![i + 1] = x]

\* lines 82-90: the cursors and the result vectors before the loop
GreedyInitial(inst) ==
    [free |-> [b \in 1 .. inst.num_berths |->
                  inst.berth_opening_times[b].start_inclusive],
     berths |-> Zeros(inst.num_vessels),
     starts |-> Zeros(inst.num_vessels),
     ends |-> Zeros(inst.num_vessels)]

Commit_cursor_at_start(st, v_id, best) ==
    [free |-> SetAt(st.free, best.best_b_id, best.best_start),
     berths |-> SetAt(st.berths, v_id, best.best_b_id),
     starts |-> SetAt(st.starts, v_id, best.best_start),
     ends |-> SetAt(st.ends, v_id, best.best_finish)]

\* lines 126-132: vessel v_id is committed to the best candidate
Commit(st, v_id, best) ==
    [free |-> SetAt(st.free, best.best_b_id, best.best_finish),
     berths |-> SetAt(st.berths, v_id, best.best_b_id),
     starts |-> SetAt(st.starts, v_id, best.best_start),
     ends |-> SetAt(st.ends, v_id, best.best_finish)]

\* lines 134-143
GreedyReturn(inst, st) ==
    LET s == NewSolution(st.berths, st.starts, st.ends,
                         inst.vessel_weights, inst.arrival_times)
    IN  IF s.tag = "ValueError" THEN None ELSE s

RECURSIVE GreedyLoop(_, _, _, _)
\* the loop of lines 92-132 from position i of the priority order on
GreedyLoop(inst, order, i, st) ==
    IF i >= Len(order) THEN GreedyReturn(inst, st)
    ELSE LET v_id == At(order, i)
             best == ScanBerths(inst, v_id, st.free, 0, NoBest)
         IN  IF best.best_b_id = -1 THEN None
             ELSE GreedyLoop(inst, order, i + 1, Commit(st, v_id, best))

\* greedy_heuristic(instance) as solve calls it (line 176)
greedy_heuristic(inst) ==
    IF inst.num_vessels = 0
    THEN EmptySolution
    ELSE GreedyLoop(inst, SortVessels(inst), 0, GreedyInitial(inst))

\* lines 73-90
GreedyStart ==
    /\ pc = "greedy"
    /\ IF instance.num_vessels = 0
       THEN /\ greedy_sol' = EmptySolution
            /\ pc' = "greedy_returned"
            /\ UNCHANGED << sorted_vessels, k, berth_free_times, v_berths,
                            v_starts, v_ends >>
       ELSE /\ sorted_vessels' = SortVessels(instance)
            /\ berth_free_times' = GreedyInitial(instance).free
            /\ v_berths' = GreedyInitial(instance).berths
            /\ v_starts' = GreedyInitial(instance).starts
            /\ v_ends' = GreedyInitial(instance).ends
            /\ k' = 0
            /\ pc' = "greedy_loop"
            /\ UNCHANGED greedy_sol
    /\ UNCHANGED << instance, use_hints, horizon, model, engine, result, args, obj >>

\* the loop variables of greedy_heuristic as one record
GreedyVars ==
    [free |-> berth_free_times, berths |-> v_berths, starts |-> v_starts,
     ends |-> v_ends]

\* one iteration of the loop of lines 92-132
GreedyIter ==
    /\ pc = "greedy_loop"
    /\ k < Len(sorted_vessels)
    /\ LET v_id == At(sorted_vessels, k)
           best == ScanBerths(instance, v_id, berth_free_times, 0, NoBest)
           st == Commit(GreedyVars, v_id, best)
       IN  IF best.best_b_id = -1
           THEN /\ greedy_sol' = None
                /\ pc' = "greedy_returned"
                /\ UNCHANGED << k, berth_free_times, v_berths, v_starts, v_ends >>
           ELSE /\ v_berths' = st.berths
                /\ v_starts' = st.starts
                /\ v_ends' = st.ends
                /\ berth_free_times' = st.free
                /\ k' = k + 1
                /\ UNCHANGED << pc, greedy_sol >>
    /\ UNCHANGED << instance, use_hints, sorted_vessels, horizon, model, engine,
                    result, args, obj >>

\* lines 134-143
GreedyFinish ==
    /\ pc = "greedy_loop"
    /\ k = Len(sorted_vessels)
    /\ greedy_sol' = GreedyReturn(instance, GreedyVars)
    /\ pc' = "greedy_returned"
    /\ UNCHANGED << instance, use_hints, sorted_vessels, k, berth_free_times,
                    v_berths, v_starts, v_ends, horizon, model, engine, result,
                    args, obj >>

Idle == << >>

InitGreedy ==
    /\ \E n \in VesselCounts, m \in BerthCounts : IsInstanceOf(instance, n, m, {1})
    /\ use_hints = TRUE
    /\ pc = "greedy"
    /\ sorted_vessels = << >>
    /\ k = 0
    /\ berth_free_times = << >>
    /\ v_berths = << >>
    /\ v_starts = << >>
    /\ v_ends = << >>
    /\ greedy_sol = NotYet
    /\ horizon = NotYet
    /\ model = NotYet
    /\ engine = NotYet
    /\ result = NotYet
    /\ args = Idle
    /\ obj = NotYet

NextGreedy == GreedyStart \/ GreedyIter \/ GreedyFinish

\* greedy_heuristic called on an instance
SpecGreedy == InitGreedy /\ [][NextGreedy]_vars

-----------------------------------------------------------------------------
(* solve: horizon analysis, lines 180-196 *)

\* line 185: the valid durations of vessel v
RECURSIVE ValidPts(_)
ValidPts(row) ==
    IF row = << >> THEN << >>
    ELSE IF is_valid(Head(row)) THEN << value(Head(row)) >> \o ValidPts(Tail(row))
         ELSE ValidPts(Tail(row))

\* lines 184-190: some vessel has no valid processing time
SomeVesselWithoutValidPt(inst) ==
    \E v \in Range0(inst.num_vessels) : ValidPts(At(inst.processing_times, v)) = << >>

RECURSIVE SumMaxDurations(_, _)
\* lines 183-187, from vessel v on
SumMaxDurations(inst, v) ==
    IF v >= inst.num_vessels THEN 0
    ELSE MaxSeq(ValidPts(At(inst.processing_times, v))) + SumMaxDurations(inst, v + 1)

\* line 192: max_arrival + sum_max_durations
HorizonFormula(inst) == MaxSeq(inst.arrival_times) + SumMaxDurations(inst, 0)

Horizon_formula_only(inst) == HorizonFormula(inst)

\* lines 193-196
Horizon(inst) == Max2(HorizonFormula(inst), MaxSeq(inst.latest_departure_times))

-----------------------------------------------------------------------------
(* solve: model construction, lines 200-324 *)

\* line 254
earliest_finish(arrival, wstart, duration) == Max2(arrival, wstart) + duration

Pruned_strict(ef, finish, deadline) == ef >= finish \/ ef >= deadline
Pruned_deadline_only(ef, finish, deadline) == ef > deadline

\* lines 253-260: the pair is pruned
Pruned(ef, finish, deadline) == ef > finish \/ ef > deadline

safe_min_start_arrival(arrival, wstart) == arrival

\* line 273
safe_min_start(arrival, wstart) == Max2(arrival, wstart)

ObjCoef_unweighted(weight, duration) == duration

\* line 269: the coefficient of is_present in the objective
ObjCoef(weight, duration) == weight * duration

\* model.NewIntVar(lb, ub, name)
NewIntVar(lb, ub) == [lb |-> lb, ub |-> ub]
Dom(x) == x.lb .. x.ub

\* the truth value of a Solution object: it defines neither __bool__ nor __len__
Truthy(x) == x.tag # "None"

\* lines 246-297 for one pair: the pair's variables and constraints, or None when
\* the pair is skipped
BuildPair(inst, v, b) ==
    LET pt == At(At(inst.processing_times, v), b)
        arrival == At(inst.arrival_times, v)
        deadline == At(inst.latest_departure_times, v)
        weight == At(inst.vessel_weights, v)
        berth_interval == At(inst.berth_opening_times, b)
    IN  IF is_invalid(pt) THEN None
        ELSE LET duration == value(pt)
                 ef == earliest_finish(arrival, berth_interval.start_inclusive, duration)
                 smin == safe_min_start(arrival, berth_interval.start_inclusive)
             IN  IF Pruned(ef, berth_interval.end_exclusive, deadline) THEN None
                 ELSE [tag |-> "pair", v |-> v, b |-> b,
                       obj_coef |-> ObjCoef(weight, duration),
                       local_start |-> NewIntVar(smin, deadline),
                       local_end |-> NewIntVar(smin + duration, deadline),
                       size |-> duration,
                       finish |-> berth_interval.end_exclusive]

\* the pairs created for vessel v (possible_berths_literals)
VesselPairsBuilt(inst, v) ==
    { BuildPair(inst, v, b) : b \in Range0(inst.num_berths) } \ {None}

VesselHints_always(inst, v, hints_on, gsol) ==
    IF Truthy(gsol)
    THEN {[var |-> << "start", v, -1 >>, val |-> At(gsol.vessel_start_times, v)],
          [var |-> << "berth", v, -1 >>, val |-> At(gsol.vessel_berths, v)]}
    ELSE {}

VesselHints_all_chosen(inst, v, hints_on, gsol) ==
    IF hints_on /\ Truthy(gsol)
    THEN {[var |-> << "start", v, -1 >>, val |-> At(gsol.vessel_start_times, v)],
          [var |-> << "berth", v, -1 >>, val |-> At(gsol.vessel_berths, v)]}
         \cup { [var |-> << "pres", v, p.b >>, val |-> 1] :
                    p \in VesselPairsBuilt(inst, v) }
    ELSE {}

\* lines 238-241 and 294-297: the hints added for vessel v
VesselHints(inst, v, hints_on, gsol) ==
    IF hints_on /\ Truthy(gsol)
    THEN {[var |-> << "start", v, -1 >>, val |-> At(gsol.vessel_start_times, v)],
          [var |-> << "berth", v, -1 >>, val |-> At(gsol.vessel_berths, v)]}
         \cup { [var |-> << "pres", v, p.b >>,
                 val |-> IF At(gsol.vessel_berths, v) = p.b THEN 1 ELSE 0] :
                    p \in VesselPairsBuilt(inst, v) }
    ELSE {}

RECURSIVE BuildFrom(_, _, _, _, _)
\* the loop of lines 218-302 from vessel v on; m is the model built so far
BuildFrom(inst, hints_on, gsol, v, m) ==
    IF v >= inst.num_vessels THEN m
    ELSE LET arrival == At(inst.arrival_times, v)
             deadline == At(inst.latest_departure_times, v)
             weight == At(inst.vessel_weights, v)
             ps == VesselPairsBuilt(inst, v)
             m1 == [m EXCEPT
                      !.constant_offset = @ - (weight * arrival),
                      !.vessel_vars = Append(@,
                          [start |-> NewIntVar(arrival, deadline),
                           berth |-> NewIntVar(0, inst.num_berths - 1),
                           obj_coef |-> weight]),
                      !.pairs = @ \cup ps,
                      !.hints = @ \cup VesselHints(inst, v, hints_on, gsol)]
         IN  IF ps = {}
             THEN [m1 EXCEPT !.aborted = TRUE]
             ELSE BuildFrom(inst, hints_on, gsol, v + 1,
                            [m1 EXCEPT !.exactly_one = @ \cup {v}])

EmptyModel ==
    [tag |-> "CpModel", aborted |-> FALSE, constant_offset |-> 0,
     vessel_vars |-> << >>, pairs |-> {}, hints |-> {}, exactly_one |-> {},
     no_overlap |-> {}]

\* lines 200-324: the model; aborted means solve returned None at line 301
BuildModel(inst, hints_on, gsol) ==
    LET m == BuildFrom(inst, hints_on, gsol, 0, EmptyModel)
    IN  IF m.aborted THEN m
        ELSE [m EXCEPT !.no_overlap =
                 { b \in Range0(inst.num_berths) : \E p \in m.pairs : p.b = b }]

-----------------------------------------------------------------------------
(* The optimization engine's contract: the assignments that satisfy the model *)

\* the values of the variables of an absent pair that no constraint reads
Unread == -1

\* the values of one pair's variables: is_present, local_start, local_end.  Every
\* constraint on local_start and local_end is enforced only if is_present, so for
\* an absent pair any values of their domains do: they are kept as Unread, and an
\* absent pair has a choice exactly when both domains are non-empty
PairChoices(p) ==
    { [v |-> p.v, b |-> p.b, pres |-> TRUE, ls |-> s, le |-> e] :
        s \in Dom(p.local_start), e \in Dom(p.local_end) }
    \cup { [v |-> p.v, b |-> p.b, pres |-> FALSE, ls |-> Unread, le |-> Unread] :
             x \in { y \in {0} : Dom(p.local_start) # {} /\ Dom(p.local_end) # {} } }

\* lines 279-281 (the optional interval: start + size = end when present) and
\* line 292 (the berth closes)
PairConstraints(p, c) ==
    c.pres => (c.ls + p.size = c.le /\ c.le <= p.finish)

\* lines 286 and 289: the linkage to the master variables
LinkConstraints(p, c, s, b) ==
    c.pres => (s = c.ls /\ b = p.b)

RECURSIVE LocChoices(_)
\* one value triple for every pair of ps
LocChoices(ps) ==
    IF ps = {} THEN { {} }
    ELSE LET p == CHOOSE q \in ps : TRUE
         IN  { rest \cup {c} :
                 rest \in LocChoices(ps \ {p}),
                 c \in { x \in PairChoices(p) : PairConstraints(p, x) } }

PairOf(m, c) == CHOOSE p \in m.pairs : p.v = c.v /\ p.b = c.b

\* the values of the variables of vessel v that satisfy the vessel's own
\* constraints: domains, interval, closing, linkage, exactly one (line 302)
VesselSat(m, v) ==
    LET vv == At(m.vessel_vars, v)
        ps == { p \in m.pairs : p.v = v }
    IN  { [start |-> s, berth |-> b, loc |-> l] :
            s \in Dom(vv.start), b \in Dom(vv.berth),
            l \in { x \in LocChoices(ps) :
                      v \in m.exactly_one => Cardinality({ c \in x : c.pres }) = 1 } }

VesselLinked(m, va) ==
    \A c \in va.loc : LinkConstraints(PairOf(m, c), c, va.start, va.berth)

\* AddNoOverlap over the intervals of one berth (lines 307-309): the present
\* intervals can be put in a sequence with end_i <= start_{i+1}
NoOverlap(loc, b) ==
    \A c1, c2 \in loc :
        (c1.b = b /\ c2.b = b /\ c1 # c2 /\ c1.pres /\ c2.pres)
            => (c1.le <= c2.ls \/ c2.le <= c1.ls)

RECURSIVE AssignFrom(_, _, _)
AssignFrom(m, v, partial) ==
    IF v >= Len(m.vessel_vars) THEN partial
    ELSE AssignFrom(m, v + 1,
             { [start |-> Append(a.start, va.start),
                berth |-> Append(a.berth, va.berth),
                loc |-> a.loc \cup va.loc] :
                  a \in partial,
                  va \in { x \in VesselSat(m, v) : VesselLinked(m, x) } })

\* every assignment of the model's variables that satisfies all its constraints
SatAssignments(m) ==
    { a \in AssignFrom(m, 0, { [start |-> << >>, berth |-> << >>, loc |-> {}] }) :
        \A b \in m.no_overlap : NoOverlap(a.loc, b) }

RECURSIVE PresenceTerms(_, _)
\* lines 267-269: the sum of is_present * (weight * duration) over the pairs cs
PresenceTerms(m, cs) ==
    IF cs = {} THEN 0
    ELSE LET c == CHOOSE x \in cs : TRUE
         IN  (IF c.pres THEN PairOf(m, c).obj_coef ELSE 0) + PresenceTerms(m, cs \ {c})

\* line 314: the value of sum(obj_terms) + constant_offset under assignment a
Objective(m, a) ==
    SumSeq([v \in 1 .. Len(a.start) |-> m.vessel_vars[v].obj_coef * a.start[v]])
      + PresenceTerms(m, a.loc)
      + m.constant_offset

Statuses == {"OPTIMAL", "FEASIBLE", "INFEASIBLE", "UNKNOWN"}

\* what solver.Solve may answer for model m: a status and, for OPTIMAL and
\* FEASIBLE, the value of every variable
EngineAnswers(m) ==
    LET sat == SatAssignments(m)
    IN  { [tag |-> "answer", status |-> "FEASIBLE", values |-> a, objective |-> Objective(m, a)] : a \in sat }
        \cup { [tag |-> "answer", status |-> "OPTIMAL", values |-> a, objective |-> Objective(m, a)] :
                 a \in { x \in sat : \A y \in sat : Objective(m, x) <= Objective(m, y) } }
        \cup (IF sat = {} THEN { [tag |-> "answer", status |-> "INFEASIBLE"] } ELSE {})
        \cup { [tag |-> "answer", status |-> "UNKNOWN"] }

-----------------------------------------------------------------------------
(* solve *)

e_val_is_start(s_val, duration) == s_val

\* line 350
e_val(s_val, duration) == s_val + duration

RECURSIVE ExtractFrom(_, _, _, _)
\* the loop of lines 343-354 from vessel v on; a raise of value() ends it
ExtractFrom(inst, vals, v, acc) ==
    IF v >= inst.num_vessels THEN acc
    ELSE LET b_val == At(vals.berth, v)
             s_val == At(vals.start, v)
             pt == At(At(inst.processing_times, v), b_val)
         IN  IF is_invalid(pt)
             THEN ValueError("Invalid ProcessingTime has no usable value")
             ELSE ExtractFrom(inst, vals, v + 1,
                      [tag |-> "acc",
                       res_berths |-> Append(acc.res_berths, b_val),
                       res_starts |-> Append(acc.res_starts, s_val),
                       res_ends |-> Append(acc.res_ends, e_val(s_val, value(pt)))])

\* lines 338-364: what solve returns (or raises) for the engine's answer
Extract(inst, answer) ==
    IF answer.status \in {"OPTIMAL", "FEASIBLE"}
    THEN LET r == ExtractFrom(inst, answer.values, 0,
                      [tag |-> "acc", res_berths |-> << >>, res_starts |-> << >>,
                       res_ends |-> << >>])
         IN  IF r.tag = "ValueError" THEN r
             ELSE NewSolution(r.res_berths, r.res_starts, r.res_ends,
                              inst.vessel_weights, inst.arrival_times)
    ELSE None

\* solve(instance, config) is called; lines 170-196
SolveStart ==
    /\ pc = "solve"
    /\ \E h \in BOOLEAN : use_hints' = h
    /\ IF instance.num_vessels = 0
       THEN /\ result' = EmptySolution
            /\ pc' = "done"
            /\ UNCHANGED << greedy_sol, horizon >>
       ELSE /\ greedy_sol' = greedy_heuristic(instance)
            /\ IF SomeVesselWithoutValidPt(instance)
               THEN /\ result' = None
                    /\ pc' = "done"
                    /\ UNCHANGED horizon
               ELSE /\ horizon' = Horizon(instance)
                    /\ pc' = "solve_build"
                    /\ UNCHANGED result
    /\ UNCHANGED << instance, sorted_vessels, k, berth_free_times, v_berths,
                    v_starts, v_ends, model, engine, args, obj >>

\* lines 200-324
SolveBuild ==
    /\ pc = "solve_build"
    /\ model' = BuildModel(instance, use_hints, greedy_sol)
    /\ IF model'.aborted
       THEN /\ result' = None
            /\ pc' = "done"
       ELSE /\ pc' = "solve_run"
            /\ UNCHANGED result
    /\ UNCHANGED << instance, use_hints, sorted_vessels, k, berth_free_times,
                    v_berths, v_starts, v_ends, greedy_sol, horizon, engine, args, obj >>

\* lines 326-364: the engine is invoked and its answer turned into the result
SolveRun ==
    /\ pc = "solve_run"
    /\ \E answer \in EngineAnswers(model) :
          /\ engine' = answer
          /\ result' = Extract(instance, answer)
    /\ pc' = "done"
    /\ UNCHANGED << instance, use_hints, sorted_vessels, k, berth_free_times,
                    v_berths, v_starts, v_ends, greedy_sol, horizon, model, args, obj >>

InitSolve ==
    /\ \E n \in VesselCounts, m \in BerthCounts : IsInstanceOf(instance, n, m, WeightsOf(n, m))
    /\ use_hints = TRUE
    /\ pc = "solve"
    /\ sorted_vessels = << >>
    /\ k = 0
    /\ berth_free_times = << >>
    /\ v_berths = << >>
    /\ v_starts = << >>
    /\ v_ends = << >>
    /\ greedy_sol = NotYet
    /\ horizon = NotYet
    /\ model = NotYet
    /\ engine = NotYet
    /\ result = NotYet
    /\ args = Idle
    /\ obj = NotYet

NextSolve == SolveStart \/ SolveBuild \/ SolveRun

\* solve called on an instance
SpecSolve == InitSolve /\ [][NextSolve]_vars

-----------------------------------------------------------------------------
(* Constructing a Solution *)

\* a list of n copies of x
Fill(n, x) == [i \in 1 .. n |-> x]

\* the call also leaves every variable but args, obj, result and pc alone
OtherVars == << instance, use_hints, sorted_vessels, k, berth_free_times,
                v_berths, v_starts, v_ends, greedy_sol, horizon, model, engine >>

\* arguments of Solution(...): five lists of one length n with any values, or
\* five lists of any lengths
IsSolutionArgs(a, n) ==
    \/ \E st \in [1 .. n -> Times], en \in [1 .. n -> Times],
          w \in [1 .. n -> {1, 2}], ar \in [1 .. n -> Times] :
          a = [vessel_berths |-> Fill(n, 0), vessel_start_times |-> st,
               vessel_end_times |-> en, weights |-> w, arrival_times |-> ar]
    \/ \E ls \in 0 .. MaxLen, le \in 0 .. MaxLen, lw \in 0 .. MaxLen,
          la \in 0 .. MaxLen, e \in {0, 1} :
          a = [vessel_berths |-> Fill(n, 0), vessel_start_times |-> Fill(ls, 0),
               vessel_end_times |-> Fill(le, e), weights |-> Fill(lw, 1),
               arrival_times |-> Fill(la, 0)]

\* Solution(...) is called: __post_init__ runs
SolutionConstruct ==
    /\ pc = "solution_new"
    /\ obj' = NewSolution(args.vessel_berths, args.vessel_start_times,
                          args.vessel_end_times, args.weights, args.arrival_times)
    /\ pc' = IF obj'.tag = "Solution" THEN "solution_built" ELSE "done"
    /\ UNCHANGED << args, result, OtherVars >>

\* validate() is called on the constructed Solution
SolutionValidate ==
    /\ pc = "solution_built"
    /\ result' = validate(obj)
    /\ pc' = "done"
    /\ UNCHANGED << args, obj, OtherVars >>

InitSolution ==
    /\ instance = Idle
    /\ use_hints = TRUE
    /\ pc = "solution_new"
    /\ sorted_vessels = << >>
    /\ k = 0
    /\ berth_free_times = << >>
    /\ v_berths = << >>
    /\ v_starts = << >>
    /\ v_ends = << >>
    /\ greedy_sol = NotYet
    /\ horizon = NotYet
    /\ model = NotYet
    /\ engine = NotYet
    /\ result = NotYet
    /\ \E n \in 0 .. MaxLen : IsSolutionArgs(args, n)
    /\ obj = NotYet

NextSolution == SolutionConstruct \/ SolutionValidate

\* a Solution is constructed and validated
SpecSolution == InitSolution /\ [][NextSolution]_vars

-----------------------------------------------------------------------------
(* Constructing a DBAPInstance *)

\* the (start, end) pairs the berth windows are built from
Bounds == { << 0, 1 >>, << 1, 1 >>, << 1, 0 >> }

\* a matrix whose row r has RowLens[r] durations
Matrix(RowLens) == [r \in 1 .. Len(RowLens) |-> Fill(RowLens[r], 0)]

\* arguments of DBAPInstance(...): arrays of the declared lengths with any
\* arrivals, deadlines and window bounds, or arrays of any lengths
IsInstanceArgs(a, n, m) ==
    \/ \E ar \in [1 .. n -> 0 .. MaxDur], dl \in [1 .. n -> 0 .. MaxDur],
          bw \in [1 .. m -> Bounds] :
          a = [num_vessels |-> n, num_berths |-> m,
               vessel_weights |-> Fill(n, 1), arrival_times |-> ar,
               latest_departure_times |-> dl,
               processing_times |-> Matrix(Fill(n, m)),
               bounds |-> bw, berth_opening_times |-> Idle]
    \/ \E lw \in 0 .. MaxLen, la \in 0 .. MaxLen, ld \in 0 .. MaxLen,
          lr \in 0 .. MaxLen, lo \in 0 .. MaxLen :
          \E cols \in [1 .. lr -> 0 .. MaxLen] :
             a = [num_vessels |-> n, num_berths |-> m,
                  vessel_weights |-> Fill(lw, 1), arrival_times |-> Fill(la, 0),
                  latest_departure_times |-> Fill(ld, 1),
                  processing_times |-> Matrix(cols),
                  bounds |-> Fill(lo, << 0, 1 >>), berth_opening_times |-> Idle]

\* the caller constructs the HalfOpenInterval of every berth; the first one
\* that raises ends the call
InstanceWindows ==
    /\ pc = "instance_windows"
    /\ LET ws == [i \in 1 .. Len(args.bounds) |->
                     HalfOpenInterval(args.bounds[i][1], args.bounds[i][2])]
           bad == { i \in 1 .. Len(ws) : ws[i].tag = "ValueError" }
       IN  IF bad # {}
           THEN /\ obj' = ws[CHOOSE i \in bad : \A j \in bad : i <= j]
                /\ pc' = "done"
                /\ UNCHANGED args
           ELSE /\ args' = [args EXCEPT !.berth_opening_times = ws]
                /\ pc' = "instance_new"
                /\ UNCHANGED obj
    /\ UNCHANGED << result, OtherVars >>

\* DBAPInstance(...) is called: __post_init__ runs
InstanceConstruct ==
    /\ pc = "instance_new"
    /\ obj' = NewInstance(args.num_vessels, args.num_berths, args.vessel_weights,
                          args.arrival_times, args.latest_departure_times,
                          args.processing_times, args.berth_opening_times)
    /\ pc' = "done"
    /\ UNCHANGED << args, result, OtherVars >>

InitInstance ==
    /\ instance = Idle
    /\ use_hints = TRUE
    /\ pc = "instance_windows"
    /\ sorted_vessels = << >>
    /\ k = 0
    /\ berth_free_times = << >>
    /\ v_berths = << >>
    /\ v_starts = << >>
    /\ v_ends = << >>
    /\ greedy_sol = NotYet
    /\ horizon = NotYet
    /\ model = NotYet
    /\ engine = NotYet
    /\ result = NotYet
    /\ \E n \in 0 .. MaxLen, m \in 0 .. MaxLen : IsInstanceArgs(args, n, m)
    /\ obj = NotYet

NextInstance == InstanceWindows \/ InstanceConstruct

\* a DBAPInstance is constructed from its berth windows and arrays
SpecInstance == InitInstance /\ [][NextInstance]_vars

-----------------------------------------------------------------------------
(* Feasible schedules *)

\* vessel v, put on berth b from start to end, respects the instance
VesselFeasible(inst, v, b, start, end) ==
    /\ b \in Range0(inst.num_berths)
    /\ inst.processing_times[v + 1][b + 1] >= 0
    /\ start >= inst.arrival_times[v + 1]
    /\ start >= inst.berth_opening_times[b + 1].start_inclusive
    /\ end = start + inst.processing_times[v + 1][b + 1]
    /\ end <= inst.berth_opening_times[b + 1].end_exclusive
    /\ end <= inst.latest_departure_times[v + 1]

\* the intervals [s1, e1) and [s2, e2) overlap
IntervalsOverlap(s1, e1, s2, e2) == s1 < e2 /\ s2 < e1

\* the schedule (berths, starts, ends) is feasible for the instance
FeasibleSchedule(inst, berths, starts, ends) ==
    /\ Len(berths) = inst.num_vessels
    /\ Len(starts) = inst.num_vessels
    /\ Len(ends) = inst.num_vessels
    /\ \A v \in Range0(inst.num_vessels) :
          VesselFeasible(inst, v, berths[v + 1], starts[v + 1], ends[v + 1])
    /\ \A v, w \in Range0(inst.num_vessels) :
          (v # w /\ berths[v + 1] = berths[w + 1])
             => ~IntervalsOverlap(starts[v + 1], ends[v + 1], starts[w + 1], ends[w + 1])

\* every feasible schedule of the instance, as berths and starts
FeasibleSchedules(inst) ==
    { sch \in [berths : [1 .. inst.num_vessels -> Range0(inst.num_berths)],
               starts : [1 .. inst.num_vessels -> Times]] :
        FeasibleSchedule(inst, sch.berths, sch.starts,
            [v \in 1 .. inst.num_vessels |->
                sch.starts[v] + inst.processing_times[v][sch.berths[v] + 1]]) }

-----------------------------------------------------------------------------
(* Claims *)

\* C1: whenever greedy_heuristic returns a Solution, the schedule is feasible:
\* every vessel is on a berth with a valid duration, starts no earlier than its
\* arrival and the berth's opening, ends at start + duration, no later than the
\* berth's closing and its deadline, and no two vessels of a berth overlap.
C1_GreedyFeasible ==
    (pc = "greedy_returned" /\ greedy_sol.tag = "Solution")
        => FeasibleSchedule(instance, greedy_sol.vessel_berths,
                            greedy_sol.vessel_start_times, greedy_sol.vessel_end_times)

\* C1 witness: greedy returned a schedule with two vessels of positive duration on
\* one berth, the later one held back by the berth's cursor
C1_Witness ==
    /\ pc = "greedy_returned"
    /\ greedy_sol.tag = "Solution"
    /\ instance.num_vessels = 2
    /\ instance.num_berths = 2
    /\ greedy_sol.vessel_berths[1] = greedy_sol.vessel_berths[2]
    /\ \A v \in 1 .. 2 : greedy_sol.vessel_end_times[v] > greedy_sol.vessel_start_times[v]
    /\ \E v \in 1 .. 2 :
          /\ greedy_sol.vessel_start_times[v] > instance.arrival_times[v]
          /\ greedy_sol.vessel_start_times[v] >
                instance.berth_opening_times[greedy_sol.vessel_berths[v] + 1].start_inclusive

\* the schedule solve assembled from the engine's values
AnswerHasValues == engine.tag = "answer" /\ engine.status \in {"OPTIMAL", "FEASIBLE"}

\* C2: every assignment that satisfies the constraints built by solve gives a
\* feasible schedule: the Solution assembled from the master berth and start
\* values has every vessel on one berth with a valid duration, within arrival,
\* window and deadline, and no two vessels of a berth overlap.
C2_ModelSound ==
    AnswerHasValues
        => /\ result.tag = "Solution"
           /\ result.vessel_berths = engine.values.berth
           /\ result.vessel_start_times = engine.values.start
           /\ FeasibleSchedule(instance, result.vessel_berths,
                               result.vessel_start_times, result.vessel_end_times)

\* C2 witness: a satisfying assignment of a two-berth instance that puts two
\* vessels of positive duration one after the other on the same berth, the later
\* one waiting past its arrival
C2_Witness ==
    /\ AnswerHasValues
    /\ instance.num_vessels = 2
    /\ instance.num_berths = 2
    /\ result.tag = "Solution"
    /\ result.vessel_berths[1] = result.vessel_berths[2]
    /\ \A v \in 1 .. 2 : result.vessel_end_times[v] > result.vessel_start_times[v]
    /\ \E v \in 1 .. 2 : result.vessel_start_times[v] > instance.arrival_times[v]

\* the master values of assignment a are those of schedule sch
Encodes(a, sch) == a.start = sch.starts /\ a.berth = sch.berths

\* C3: pruning removes no pair of a feasible schedule: when solve builds the
\* model, every feasible schedule of the instance is the master part of an
\* assignment that satisfies every constraint and domain of the model; and when
\* solve gives up before the engine, the instance has no feasible schedule.
C3_ModelComplete ==
    /\ pc = "solve_run"
          => \A sch \in FeasibleSchedules(instance) :
                \E a \in SatAssignments(model) : Encodes(a, sch)
    /\ (pc = "done" /\ instance.num_vessels > 0 /\ engine = NotYet)
          => FeasibleSchedules(instance) = {}

\* C3 witness: a model with a pruned pair, for an instance with a feasible
\* schedule that serves both vessels, for more than no time, on one berth and
\* another that uses both berths
C3_Witness ==
    /\ pc = "solve_run"
    /\ instance.num_vessels = 2
    /\ instance.num_berths = 2
    /\ \E v \in 0 .. 1, b \in 0 .. 1 :
          /\ instance.processing_times[v + 1][b + 1] >= 0
          /\ ~\E p \in model.pairs : p.v = v /\ p.b = b
    /\ \E sch \in FeasibleSchedules(instance) :
          /\ sch.berths[1] = sch.berths[2]
          /\ \A v \in 1 .. 2 : instance.processing_times[v][sch.berths[v] + 1] > 0
    /\ \E sch \in FeasibleSchedules(instance) : sch.berths[1] # sch.berths[2]

\* the weighted turnaround of the values of an answer, from the instance
WeightedTurnaround(inst, vals) ==
    SumSeq([v \in 1 .. inst.num_vessels |->
               inst.vessel_weights[v]
                 * ((vals.start[v] + inst.processing_times[v][vals.berth[v] + 1])
                      - inst.arrival_times[v])])

\* C4: for every assignment that satisfies the model, the objective expression
\* equals the sum over the vessels of weight * (end - arrival), end being
\* start + duration on the chosen berth, and so equals
\* total_weighted_turnaround_time of the Solution assembled from it.
C4_ObjectiveIsWeightedTurnaround ==
    AnswerHasValues
        => /\ engine.objective = WeightedTurnaround(instance, engine.values)
           /\ result.tag = "Solution"
           /\ engine.objective = result.total_weighted_turnaround_time

\* C4 witness: an assignment of a two-vessel instance with a weight other than 1,
\* a vessel that waits and durations that are not zero
C4_Witness ==
    /\ AnswerHasValues
    /\ instance.num_vessels = 2
    /\ \E v \in 1 .. 2 : instance.vessel_weights[v] = 2
    /\ \E v \in 1 .. 2 : engine.values.start[v] > instance.arrival_times[v]
    /\ \A v \in 1 .. 2 : instance.processing_times[v][engine.values.berth[v] + 1] > 0
    /\ engine.objective > 0

\* every berth of vessel v with a valid duration is pruned: served from the
\* earliest moment, the vessel would finish after the berth closes or after its
\* deadline (a vessel with no valid duration at all is such a vessel)
NoUsablePair(inst, v) ==
    \A b \in Range0(inst.num_berths) :
        inst.processing_times[v + 1][b + 1] >= 0
          => LET ef == Max2(inst.arrival_times[v + 1],
                            inst.berth_opening_times[b + 1].start_inclusive)
                         + inst.processing_times[v + 1][b + 1]
             IN  \/ ef > inst.berth_opening_times[b + 1].end_exclusive
                 \/ ef > inst.latest_departure_times[v + 1]

StructurallyInfeasible(inst) ==
    inst.num_vessels > 0 /\ \E v \in Range0(inst.num_vessels) : NoUsablePair(inst, v)

\* C5: when some vessel has no berth with a valid duration, or all its valid
\* pairs are pruned, solve returns None, raises nothing and never invokes the
\* engine.
C5_StructuralInfeasibility ==
    StructurallyInfeasible(instance)
        => /\ engine = NotYet
           /\ pc # "solve_run"
           /\ result \in {NotYet, None}
           /\ pc = "done" => result = None

\* C5 witness: solve returned None without the engine for a two-vessel instance
\* whose first vessel has a usable pair and whose second vessel has valid
\* durations, all of them pruned
C5_Witness ==
    /\ pc = "done"
    /\ result = None
    /\ engine = NotYet
    /\ instance.num_vessels = 2
    /\ ~NoUsablePair(instance, 0)
    /\ NoUsablePair(instance, 1)
    /\ \E b \in Range0(instance.num_berths) : instance.processing_times[2][b + 1] >= 0
    /\ instance.arrival_times[2] <= instance.latest_departure_times[2]

\* the model has been built (solve is past line 302 for some vessel)
ModelBuilt == model.tag = "CpModel"

\* C6: a failed heuristic is not infeasibility: when greedy_heuristic returned
\* None and every vessel has a usable pair, solve builds the full model, adds no
\* hint, invokes the engine, and returns a Solution exactly when the status is
\* optimal or feasible; and with use_hints false no hint is added either.
C6_HeuristicFailureIsNotInfeasibility ==
    /\ (ModelBuilt /\ (greedy_sol = None \/ ~use_hints)) => model.hints = {}
    /\ (pc \in {"solve_build", "solve_run", "done"} /\ greedy_sol = None
          /\ ~StructurallyInfeasible(instance))
          => /\ pc # "solve_build" =>
                  /\ ModelBuilt
                  /\ ~model.aborted
                  /\ Len(model.vessel_vars) = instance.num_vessels
                  /\ model.exactly_one = Range0(instance.num_vessels)
             /\ pc = "done" =>
                  /\ engine.tag = "answer"
                  /\ (engine.status \in {"OPTIMAL", "FEASIBLE"}) = (result.tag = "Solution")
                  /\ (engine.status \notin {"OPTIMAL", "FEASIBLE"}) = (result = None)

\* C6 witness: hints were asked for, the heuristic failed, and the engine found
\* an optimal schedule of the hint-free model
C6_Witness ==
    /\ pc = "done"
    /\ use_hints
    /\ greedy_sol = None
    /\ ModelBuilt
    /\ model.hints = {}
    /\ engine.tag = "answer"
    /\ engine.status = "OPTIMAL"
    /\ result.tag = "Solution"

\* solve has computed its horizon (it is past line 196)
HorizonComputed ==
    pc \in {"solve_build", "solve_run"} \/ (pc = "done" /\ ModelBuilt)

\* the completion times of schedule sch
EndsOf(inst, sch) ==
    { sch.starts[v] + inst.processing_times[v][sch.berths[v] + 1] :
        v \in 1 .. inst.num_vessels }

\* C7 as stated: max(arrival) + the sum of the vessels' maximum valid durations
\* is at least the completion time of every vessel in every feasible schedule.
C7_FormulaBoundsCompletion ==
    HorizonComputed
        => \A sch \in FeasibleSchedules(instance) :
              \A e \in EndsOf(instance, sch) : e <= HorizonFormula(instance)

\* C7 amended: the horizon solve computes, the formula raised to the maximum
\* deadline, is at least the completion time of every vessel in every feasible
\* schedule.
C7_HorizonBoundsCompletion ==
    HorizonComputed
        => \A sch \in FeasibleSchedules(instance) :
              \A e \in EndsOf(instance, sch) : e <= horizon

\* C7 witness: the horizon was raised above the formula, and some feasible
\* schedule completes a vessel after the formula's value
C7_Witness ==
    /\ HorizonComputed
    /\ horizon > HorizonFormula(instance)
    /\ \E sch \in FeasibleSchedules(instance) :
          \E e \in EndsOf(instance, sch) : e > HorizonFormula(instance)

-----------------------------------------------------------------------------
(* Solution: derived metrics and the construction check *)

\* the largest element of a non-empty list
Largest(seq) == CHOOSE x \in { seq[i] : i \in 1 .. Len(seq) } :
                    \A j \in 1 .. Len(seq) : seq[j] <= x

\* the sum of f[i] * g[i]
RECURSIVE DotFrom(_, _, _)
DotFrom(f, g, i) == IF i > Len(f) THEN 0 ELSE f[i] * g[i] + DotFrom(f, g, i + 1)

\* C9: for every successfully constructed Solution and every vessel v,
\* end[v] >= start[v], turnaround[v] = end[v] - arrival[v],
\* weightedTurnaround[v] = turnaround[v] * weight[v], totalTurnaround is the sum
\* of the turnarounds, totalWeightedTurnaround is the sum of weight[v] *
\* turnaround[v], and makespan is max(end), 0 when there are no vessels.
C9_SolutionMetrics ==
    (pc \in {"solution_built", "done"} /\ obj.tag = "Solution") =>
        LET n == Len(obj.vessel_berths) IN
        /\ Len(obj.vessel_turnaround_times) = n
        /\ Len(obj.vessel_weighted_turnaround_times) = n
        /\ \A v \in 1 .. n :
              /\ obj.vessel_end_times[v] >= obj.vessel_start_times[v]
              /\ obj.vessel_turnaround_times[v] =
                     args.vessel_end_times[v] - args.arrival_times[v]
              /\ obj.vessel_weighted_turnaround_times[v] =
                     obj.vessel_turnaround_times[v] * args.weights[v]
        /\ obj.total_turnaround_time = SumSeq(obj.vessel_turnaround_times)
        /\ obj.total_weighted_turnaround_time =
               DotFrom(args.weights, obj.vessel_turnaround_times, 1)
        /\ makespan(obj) = IF n = 0 THEN 0 ELSE Largest(args.vessel_end_times)

\* a Solution of two vessels with different weights, arrivals after time 0,
\* different completion times and the later one first in the list
C9_Witness ==
    /\ pc = "done"
    /\ obj.tag = "Solution"
    /\ Len(obj.vessel_berths) = 2
    /\ args.weights = << 2, 1 >>
    /\ args.arrival_times = << 1, 1 >>
    /\ obj.vessel_end_times = << 2, 1 >>
    /\ obj.total_weighted_turnaround_time = 2
    /\ makespan(obj) = 2

\* the lengths of the start, end, weights and arrival lists all equal that of
\* the berth list
LengthsMatch(a) ==
    /\ Len(a.vessel_start_times) = Len(a.vessel_berths)
    /\ Len(a.vessel_end_times) = Len(a.vessel_berths)
    /\ Len(a.weights) = Len(a.vessel_berths)
    /\ Len(a.arrival_times) = Len(a.vessel_berths)

SomeEndBeforeStart(a) ==
    \E v \in 1 .. Len(a.vessel_berths) : a.vessel_end_times[v] < a.vessel_start_times[v]

\* C10: if the start, end, weights or arrival list differs in length from the
\* berth list, or some vessel has end < start, the construction raises and no
\* Solution exists; every Solution that was constructed passes validate(),
\* which returns True.
C10_SolutionConstructionChecked ==
    /\ (pc \in {"solution_built", "done"}
          /\ (~LengthsMatch(args) \/ SomeEndBeforeStart(args)))
         => (obj.tag = "ValueError" /\ pc = "done" /\ result = NotYet)
    /\ (pc \in {"solution_built", "done"} /\ obj.tag = "Solution")
         => validate(obj) = True
    /\ (pc = "done" /\ obj.tag = "Solution") => result = True

\* five lists of two elements, the second vessel ending before it starts: the
\* construction raised after the first vessel was accepted, and nothing was
\* there to validate
C10_Witness ==
    /\ pc = "done"
    /\ LengthsMatch(args)
    /\ Len(args.vessel_berths) = 2
    /\ args.vessel_start_times = << 0, 2 >>
    /\ args.vessel_end_times = << 1, 1 >>
    /\ obj.tag = "ValueError"
    /\ result = NotYet

-----------------------------------------------------------------------------
(* DBAPInstance: the invariants enforced at construction *)

\* every per-vessel and per-berth array has the declared length
DeclaredLengths(a) ==
    /\ Len(a.vessel_weights) = a.num_vessels
    /\ Len(a.arrival_times) = a.num_vessels
    /\ Len(a.latest_departure_times) = a.num_vessels
    /\ Len(a.processing_times) = a.num_vessels
    /\ \A r \in 1 .. Len(a.processing_times) : Len(a.processing_times[r]) = a.num_berths
    /\ Len(a.bounds) = a.num_berths

\* some vessel arrives after its deadline
ArrivalAfterDeadline(a) ==
    \E v \in 1 .. a.num_vessels :
       /\ v <= Len(a.arrival_times)
       /\ v <= Len(a.latest_departure_times)
       /\ a.arrival_times[v] > a.latest_departure_times[v]

\* some berth window starts after its end
WindowStartAfterEnd(a) ==
    \E b \in 1 .. Len(a.bounds) : a.bounds[b][1] > a.bounds[b][2]

\* the construction ended in a ValueError and produced no object
Raised(o) == "tag" \in DOMAIN o /\ o.tag = "ValueError"

\* C8: constructing an Instance fails with an error, and no Instance is
\* produced, whenever an array does not have the declared length, or some
\* vessel has arrival > deadline, or some berth window has start > end; it
\* succeeds otherwise.
C8_ConstructionEnforcesInvariants ==
    pc = "done" =>
        IF \/ ~DeclaredLengths(args)
           \/ ArrivalAfterDeadline(args)
           \/ WindowStartAfterEnd(args)
        THEN Raised(obj)
        ELSE ~Raised(obj) /\ obj.num_vessels = args.num_vessels

-----------------------------------------------------------------------------
(* ProcessingTime arithmetic *)

\* times of the ProcessingTime operands explored, invalid ones included
PtTimes == -2 .. MaxTime

\* the second operand: a ProcessingTime or a raw int
Operands == [kind : {"ProcessingTime", "int"}, time : PtTimes]

\* line 76-77, 108-109: a raw int is wrapped
Wrap(other) == other.time

ZeroDivisionError == [tag |-> "ZeroDivisionError"]


Apply(op, a, b) ==
    CASE op = "+" -> a + b
      [] op = "-" -> a - b
      [] op = "*" -> a * b

\* a ProcessingTime object
PT(t) == [tag |-> "ProcessingTime", time |-> t]

\* ProcessingTime(a // b): Python raises on a zero divisor
FloorDiv(a, b) == IF b = 0 THEN ZeroDivisionError ELSE PT(a \div b)

combine_guard_self_only(self, other_pt) == is_valid(self)

\* line 80
combine_guard(self, other_pt) == is_valid(self) /\ is_valid(other_pt)

\* ProcessingTime._combine
combine(self, other, op) ==
    IF combine_guard(self, Wrap(other))
    THEN PT(Apply(op, self, Wrap(other)))
    ELSE PT(INVALID_PROCESSING_TIME)

\* ProcessingTime.__rsub__: other - self for a raw int other
rsub(self, other) ==
    LET other_pt == other.time IN
    IF is_valid(other_pt) /\ is_valid(self)
    THEN PT(other.time - self)
    ELSE PT(INVALID_PROCESSING_TIME)

\* ProcessingTime.__floordiv__
floordiv(self, other) ==
    IF is_valid(self) /\ is_valid(Wrap(other)) /\ Wrap(other) # 0
    THEN FloorDiv(self, Wrap(other))
    ELSE PT(INVALID_PROCESSING_TIME)

\* the operators of the class; the reflected ones take a raw int on the left
Operators == {"+", "-", "*", "//", "r+", "r-", "r*"}

Evaluate(op, self, other) ==
    CASE op \in {"+", "-", "*"} -> combine(self, other, op)
      [] op = "r+" -> combine(self, other, "+")
      [] op = "r*" -> combine(self, other, "*")
      [] op = "r-" -> rsub(self, other)
      [] op = "//" -> floordiv(self, other)

\* one operator is applied to its two operands
ArithApply ==
    /\ pc = "arith"
    /\ result' = Evaluate(args.op, args.a, args.b)
    /\ pc' = "done"
    /\ UNCHANGED << args, obj, OtherVars >>

InitArith ==
    /\ instance = Idle
    /\ use_hints = TRUE
    /\ pc = "arith"
    /\ sorted_vessels = << >>
    /\ k = 0
    /\ berth_free_times = << >>
    /\ v_berths = << >>
    /\ v_starts = << >>
    /\ v_ends = << >>
    /\ greedy_sol = NotYet
    /\ horizon = NotYet
    /\ model = NotYet
    /\ engine = NotYet
    /\ result = NotYet
    /\ \E a \in PtTimes, b \in Operands, op \in Operators :
          /\ (op \in {"r+", "r-", "r*"}) => b.kind = "int"
          /\ args = [a |-> a, b |-> b, op |-> op]
    /\ obj = NotYet

NextArith == ArithApply

\* an arithmetic operator of ProcessingTime is applied
SpecArith == InitArith /\ [][NextArith]_vars

\* C11: if either operand is invalid, the result of +, -, * and // is an
\* invalid ProcessingTime, whether the second operand is a ProcessingTime or a
\* raw int; and a // 0 for a valid a is an invalid ProcessingTime, not an
\* exception.
C11_InvalidityPropagates ==
    pc = "done" =>
        /\ (is_invalid(args.a) \/ is_invalid(args.b.time))
              => (result.tag = "ProcessingTime" /\ is_invalid(result.time))
        /\ (args.op = "//" /\ is_valid(args.a) /\ args.b.time = 0)
              => (result.tag = "ProcessingTime" /\ is_invalid(result.time))

\* a raw negative int minus a valid ProcessingTime gave the sentinel
C11_Witness ==
    /\ pc = "done"
    /\ args.op = "r-"
    /\ args.b = [kind |-> "int", time |-> -2]
    /\ args.a = 1
    /\ result = PT(INVALID_PROCESSING_TIME)

-----------------------------------------------------------------------------
(* parse_instance *)

\* a whitespace-delimited token: the text of an integer, or any other word
IntTok(v) == [kind |-> "int", v |-> v]
WordTok == [kind |-> "word", v |-> 0]

EOFError == [tag |-> "EOFError", msg |-> "Unexpected end of input"]

\* read_int() on the token at position pos (1-based)
read_int(tokens, pos) ==
    IF pos > Len(tokens) THEN EOFError
    ELSE IF tokens[pos].kind # "int"
         THEN ValueError("Encountered non-integer token in input")
         ELSE [tag |-> "int", v |-> tokens[pos].v]

\* [read_int() for _ in range(count)] from position pos on: the list and the
\* next position, or the error of the first read that fails
read_ints(tokens, pos, count) ==
    LET bad == { i \in pos .. (pos + count - 1) : read_int(tokens, i).tag # "int" } IN
    IF bad # {}
    THEN read_int(tokens, CHOOSE i \in bad : \A j \in bad : i <= j)
    ELSE [tag |-> "ints", vals |-> [i \in 1 .. count |-> tokens[pos + i - 1].v],
          pos |-> pos + count]

\* lines 322-325: the ProcessingTime a matrix token becomes
to_pt(h, forbidden_threshold) ==
    IF h >= forbidden_threshold THEN INVALID_PROCESSING_TIME ELSE h

closed_end_kept(ending) == ending

\* line 346: the exclusive end of a closed window
half_open_end(ending) == ending + 1

\* the first index of a list of pairs where left > right, 0 when there is none
FirstGreater(left, right) ==
    LET bad == { i \in 1 .. Len(left) : left[i] > right[i] } IN
    IF bad = {} THEN 0 ELSE CHOOSE i \in bad : \A j \in bad : i <= j

\* lines 328-361, after the matrix was read
parse_rest(tokens, n, m, arrivals, openings, proc, forbidden_threshold) ==
    LET endings == read_ints(tokens, proc.pos, m) IN
    IF endings.tag # "ints" THEN endings
    ELSE IF FirstGreater(openings.vals, endings.vals) # 0
    THEN ValueError("Invalid berth interval")
    ELSE
    LET latest == read_ints(tokens, endings.pos, n) IN
    IF latest.tag # "ints" THEN latest
    ELSE IF FirstGreater(arrivals.vals, latest.vals) # 0
    THEN ValueError("Arrival exceeds latest departure")
    ELSE
    LET intervals == [i \in 1 .. m |->
                         HalfOpenInterval(openings.vals[i], half_open_end(endings.vals[i]))]
        raised == { i \in 1 .. m : intervals[i].tag = "ValueError" }
    IN  IF raised # {}
        THEN intervals[CHOOSE i \in raised : \A j \in raised : i <= j]
        ELSE NewInstance(n, m, Fill(n, 1), arrivals.vals, latest.vals,
                 [r \in 1 .. n |-> [c \in 1 .. m |->
                     to_pt(proc.vals[(r - 1) * m + c], forbidden_threshold)]],
                 intervals)

\* parse_instance(source, forbidden_threshold): the DBAPInstance, or the
\* exception raised
parse_instance(tokens, forbidden_threshold) ==
    LET n == read_int(tokens, 1) IN
    IF n.tag # "int" THEN n
    ELSE
    LET m == read_int(tokens, 2) IN
    IF m.tag # "int" THEN m
    ELSE IF n.v <= 0 THEN ValueError("Number of vessels must be positive")
    ELSE IF m.v <= 0 THEN ValueError("Number of berths must be positive")
    ELSE
    LET arrivals == read_ints(tokens, 3, n.v) IN
    IF arrivals.tag # "ints" THEN arrivals
    ELSE
    LET openings == read_ints(tokens, arrivals.pos, m.v) IN
    IF openings.tag # "ints" THEN openings
    ELSE
    LET proc == read_ints(tokens, openings.pos, n.v * m.v) IN
    IF proc.tag # "ints" THEN proc
    ELSE parse_rest(tokens, n.v, m.v, arrivals, openings, proc, forbidden_threshold)

\* the integer tokens of an instance text, in the order of the format
Layout(n, m, ar, op, mx, en, dl) ==
    [i \in 1 .. Len(<< n, m >> \o ar \o op \o mx \o en \o dl) |->
        IntTok((<< n, m >> \o ar \o op \o mx \o en \o dl)[i])]

\* the counts N and M written in the texts explored
ParseCounts == {1, 2}
BadCounts == {-1, 0, 1}

\* the values of forbidden_threshold explored
Thresholds == {0, MaxDur + 1}

\* the matrix tokens explored: below, at and above the larger threshold
MatrixTokens == -2 .. (MaxDur + 2)

\* what may be wrong with a text of len tokens: nothing, the text ends after
\* at tokens, token at is a word, or a further integer or word follows
Damages(len) ==
    {[kind |-> "none", at |-> 0]}
    \cup [kind : {"cut"}, at : 0 .. (len - 1)]
    \cup [kind : {"word"}, at : 1 .. len]
    \cup [kind : {"extra_int", "extra_word"}, at : {0}]

Damage(toks, d) ==
    CASE d.kind = "none" -> toks
      [] d.kind = "cut" -> SubSeq(toks, 1, d.at)
      [] d.kind = "word" -> [toks EXCEPT ![d.at] = WordTok]
      [] d.kind = "extra_int" -> Append(toks, IntTok(0))
      [] d.kind = "extra_word" -> Append(toks, WordTok)

Nat0(x) == IF x < 0 THEN 0 ELSE x

\* the arguments of a call on the text toks, damaged in one way or none
TextArgs(a, toks) ==
    \E d \in Damages(Len(toks)), thr \in Thresholds :
       a = [tokens |-> Damage(toks, d), forbidden_threshold |-> thr]

\* the calls explored: any times with an all-zero matrix, any matrix with
\* fixed times, or a count that is not positive
IsParseArgs(a) ==
    \/ \E n \in ParseCounts, m \in ParseCounts :
       \E ar \in [1 .. n -> 0 .. MaxDur], dl \in [1 .. n -> 0 .. MaxDur],
          op \in [1 .. m -> 0 .. MaxDur], en \in [1 .. m -> 0 .. MaxDur] :
          TextArgs(a, Layout(n, m, ar, op, Fill(n * m, 0), en, dl))
    \/ \E n \in ParseCounts, m \in ParseCounts :
       \E mx \in [1 .. n * m -> MatrixTokens] :
          TextArgs(a, Layout(n, m, Fill(n, 0), Fill(m, 0), mx, Fill(m, 1), Fill(n, 1)))
    \/ \E n \in BadCounts, m \in BadCounts :
          /\ n <= 0 \/ m <= 0
          /\ TextArgs(a, Layout(n, m, Fill(Nat0(n), 0), Fill(Nat0(m), 0),
                                Fill(Nat0(n) * Nat0(m), 0), Fill(Nat0(m), 1),
                                Fill(Nat0(n), 1)))

\* parse_instance is called on a text
ParseCall ==
    /\ pc = "parse"
    /\ obj' = parse_instance(args.tokens, args.forbidden_threshold)
    /\ pc' = "done"
    /\ UNCHANGED << args, result, OtherVars >>

InitParse ==
    /\ instance = Idle
    /\ use_hints = TRUE
    /\ pc = "parse"
    /\ sorted_vessels = << >>
    /\ k = 0
    /\ berth_free_times = << >>
    /\ v_berths = << >>
    /\ v_starts = << >>
    /\ v_ends = << >>
    /\ greedy_sol = NotYet
    /\ horizon = NotYet
    /\ model = NotYet
    /\ engine = NotYet
    /\ result = NotYet
    /\ IsParseArgs(args)
    /\ obj = NotYet

NextParse == ParseCall

\* parse_instance called on a text
SpecParse == InitParse /\ [][NextParse]_vars

-----------------------------------------------------------------------------
(* parse_instance: what it returns and what it refuses *)

\* the call returned a DBAPInstance
Returned(o) == "num_vessels" \in DOMAIN o

\* the integer written at position pos of the text
TokenAt(pos) == args.tokens[pos].v

\* the position of the processing-time token of vessel v at berth b (1-based)
MatrixPos(n, m, v, b) == 2 + n + m + (v - 1) * m + b

\* C12: every processing-time token at or above forbidden_threshold becomes
\* the invalid sentinel, and every other token h becomes a valid duration of
\* value h, at the matrix position given by row-major token order.
C12_TokensBecomeDurations ==
    (pc = "done" /\ Returned(obj)) =>
        \A v \in 1 .. obj.num_vessels, b \in 1 .. obj.num_berths :
           LET h == TokenAt(MatrixPos(obj.num_vessels, obj.num_berths, v, b))
               pt == obj.processing_times[v][b]
           IN  IF h >= args.forbidden_threshold
               THEN pt = INVALID_PROCESSING_TIME
               ELSE is_valid(pt) /\ value(pt) = h

\* the positions of the opening and closing tokens of berth b (1-based)
OpenPos(n, m, b) == 2 + n + b
ClosePos(n, m, b) == 2 + n + m + n * m + b

\* C13: for every accepted text and every berth b the parsed window is
\* [open_b, close_b + 1): its start is the opening written, its exclusive end
\* less one is the closing written, it is not empty, and building it never
\* raises.
C13_WindowRoundTrip ==
    /\ (pc = "done" /\ Returned(obj)) =>
          \A b \in 1 .. obj.num_berths :
             LET w == obj.berth_opening_times[b] IN
             /\ w.tag = "HalfOpenInterval"
             /\ w.start_inclusive = TokenAt(OpenPos(obj.num_vessels, obj.num_berths, b))
             /\ w.end_exclusive - 1 = TokenAt(ClosePos(obj.num_vessels, obj.num_berths, b))
             /\ w.end_exclusive - w.start_inclusive > 0
    /\ pc = "done" => obj # ValueError("Interval end must be >= start")

\* a text of two berths was accepted, one berth open at a single instant
C13_Witness ==
    /\ pc = "done"
    /\ Returned(obj)
    /\ obj.num_berths = 2
    /\ TokenAt(OpenPos(obj.num_vessels, 2, 1)) = 1
    /\ TokenAt(ClosePos(obj.num_vessels, 2, 1)) = 1
    /\ obj.berth_opening_times[1] = HalfOpenInterval(1, 2)
    /\ obj.berth_opening_times[2] = HalfOpenInterval(0, 2)

\* some token of the text is not an integer
HasWord == \E i \in 1 .. Len(args.tokens) : args.tokens[i].kind = "word"

\* the counts the text declares, where its first two tokens are integers
DeclaresCounts ==
    /\ Len(args.tokens) >= 2
    /\ args.tokens[1].kind = "int"
    /\ args.tokens[2].kind = "int"

\* the number of tokens the format asks for
Needed(n, m) == 2 + 2 * Nat0(n) + 2 * Nat0(m) + Nat0(n) * Nat0(m)

\* the text ends before the format does
EndsEarly ==
    \/ Len(args.tokens) < 2
    \/ DeclaresCounts /\ Len(args.tokens) < Needed(TokenAt(1), TokenAt(2))

\* the text has every token of the format, all of them integers
WellFormed ==
    /\ DeclaresCounts
    /\ Len(args.tokens) >= Needed(TokenAt(1), TokenAt(2))
    /\ \A i \in 1 .. Needed(TokenAt(1), TokenAt(2)) : args.tokens[i].kind = "int"

SomeWindowInverted(n, m) ==
    \E b \in 1 .. m : TokenAt(OpenPos(n, m, b)) > TokenAt(ClosePos(n, m, b))

SomeArrivalLate(n, m) ==
    \E v \in 1 .. n : TokenAt(2 + v) > TokenAt(2 + n + 2 * m + n * m + v)

\* the error of the first violated check, in the order N > 0, M > 0, windows,
\* arrivals; NotYet when no check is violated
FirstViolation(n, m) ==
    IF n <= 0 THEN ValueError("Number of vessels must be positive")
    ELSE IF m <= 0 THEN ValueError("Number of berths must be positive")
    ELSE IF SomeWindowInverted(n, m) THEN ValueError("Invalid berth interval")
    ELSE IF SomeArrivalLate(n, m) THEN ValueError("Arrival exceeds latest departure")
    ELSE NotYet

\* C14: parse_instance validates N > 0, M > 0, then open <= close for each
\* berth, then arrival <= deadline for each vessel; any violation, non-integer
\* token or premature end raises and no Instance is returned; the error is
\* that of the first violated check; every Instance returned has N > 0, M > 0,
\* weights all 1 and arrival <= deadline for every vessel.
C14_ParseValidates ==
    pc = "done" =>
        /\ (HasWord \/ EndsEarly) => ~Returned(obj)
        /\ (WellFormed /\ FirstViolation(TokenAt(1), TokenAt(2)) # NotYet)
              => obj = FirstViolation(TokenAt(1), TokenAt(2))
        /\ Returned(obj) =>
              /\ obj.num_vessels > 0
              /\ obj.num_berths > 0
              /\ obj.vessel_weights = Fill(obj.num_vessels, 1)
              /\ \A v \in 1 .. obj.num_vessels :
                    obj.arrival_times[v] <= obj.latest_departure_times[v]

-----------------------------------------------------------------------------
(* HalfOpenInterval queries *)

contains_closed(x, t) == x.start_inclusive <= t /\ t <= x.end_exclusive

\* HalfOpenInterval.contains and __contains__
contains(x, t) == x.start_inclusive <= t /\ t < x.end_exclusive

\* HalfOpenInterval.__len__
len(x) == x.end_exclusive - x.start_inclusive

\* HalfOpenInterval.is_empty
is_empty(x) == len(x) = 0

adjacent_one_sided(x, y) == x.end_exclusive = y.start_inclusive

\* HalfOpenInterval.adjacent
adjacent(x, y) ==
    (x.end_exclusive = y.start_inclusive) \/ (y.end_exclusive = x.start_inclusive)

\* min(a, b) of line 190
Min2(a, b) == IF a <= b THEN a ELSE b

intersection_hull(x, y) ==
    IF overlaps(x, y)
    THEN HalfOpenInterval(Min2(x.start_inclusive, y.start_inclusive),
                          Max2(x.end_exclusive, y.end_exclusive))
    ELSE None

\* HalfOpenInterval.intersection
intersection(x, y) ==
    IF overlaps(x, y)
    THEN HalfOpenInterval(Max2(x.start_inclusive, y.start_inclusive),
                          Min2(x.end_exclusive, y.end_exclusive))
    ELSE None

\* the integers asked about: every point of every window, and one beyond
\* either side
Probes == -1 .. (MaxTime + 1)

\* x.contains(t), or t in x, is evaluated
IntervalContains ==
    /\ pc = "interval"
    /\ result' = contains(args.x, args.t)
    /\ pc' = "contained"
    /\ UNCHANGED << args, obj, OtherVars >>

\* x.overlaps(y) is evaluated
IntervalOverlaps ==
    /\ pc = "interval"
    /\ result' = overlaps(args.x, args.y)
    /\ pc' = "overlapped"
    /\ UNCHANGED << args, obj, OtherVars >>

\* x.adjacent(y) is evaluated
IntervalAdjacent ==
    /\ pc = "interval"
    /\ result' = adjacent(args.x, args.y)
    /\ pc' = "adjoined"
    /\ UNCHANGED << args, obj, OtherVars >>

\* x.intersection(y) is evaluated
IntervalIntersection ==
    /\ pc = "interval"
    /\ result' = intersection(args.x, args.y)
    /\ pc' = "intersected"
    /\ UNCHANGED << args, obj, OtherVars >>

InitInterval ==
    /\ instance = Idle
    /\ use_hints = TRUE
    /\ pc = "interval"
    /\ sorted_vessels = << >>
    /\ k = 0
    /\ berth_free_times = << >>
    /\ v_berths = << >>
    /\ v_starts = << >>
    /\ v_ends = << >>
    /\ greedy_sol = NotYet
    /\ horizon = NotYet
    /\ model = NotYet
    /\ engine = NotYet
    /\ result = NotYet
    /\ \E x \in Windows, y \in Windows, t \in Probes : args = [x |-> x, y |-> y, t |-> t]
    /\ obj = NotYet

NextInterval ==
    IntervalContains \/ IntervalOverlaps \/ IntervalAdjacent \/ IntervalIntersection

\* a query is made on HalfOpenIntervals
SpecInterval == InitInterval /\ [][NextInterval]_vars

\* C15: x.contains(t) is true exactly when x.start <= t < x.end; an empty
\* interval contains no t, and the number of integers contained is
\* len(x) = end - start.
C15_ContainsIsHalfOpen ==
    pc = "contained" =>
        /\ result = (args.t \in args.x.start_inclusive .. (args.x.end_exclusive - 1))
        /\ (args.x.start_inclusive = args.x.end_exclusive) => (result = FALSE)
        /\ Cardinality({ t \in Probes : contains(args.x, t) }) = len(args.x)
        /\ len(args.x) = args.x.end_exclusive - args.x.start_inclusive

\* the exclusive end of a non-empty interval was asked about and refused
C15_Witness ==
    /\ pc = "contained"
    /\ args.x = HalfOpenInterval(0, 2)
    /\ args.t = 2
    /\ result = FALSE

\* C16: x.overlaps(x) is true if and only if x is non-empty, and overlaps is
\* symmetric: x.overlaps(y) = y.overlaps(x).
C16_OverlapsReflexiveSymmetric ==
    pc = "overlapped" =>
        /\ result = overlaps(args.y, args.x)
        /\ (args.x = args.y) => (result = ~is_empty(args.x))

\* an empty interval was asked whether it overlaps itself, and does not
C16_Witness ==
    /\ pc = "overlapped"
    /\ args.x = HalfOpenInterval(1, 1)
    /\ args.y = args.x
    /\ result = FALSE

-----------------------------------------------------------------------------
(* solve: assembling the Solution *)

\* C17: when the engine answers OPTIMAL or FEASIBLE, solve returns a Solution
\* whose berths and starts are the engine's values and whose end of every
\* vessel is start + duration[v][chosen berth] read from the instance; the
\* chosen berth has a valid duration, so neither value() nor the construction
\* of the Solution raises. For any other status solve returns None and does
\* not raise.
C17_AssemblyFromEngineAnswer ==
    (pc = "done" /\ engine # NotYet) =>
        IF engine.status \in {"OPTIMAL", "FEASIBLE"}
        THEN /\ result.tag = "Solution"
             /\ result.vessel_berths = engine.values.berth
             /\ result.vessel_start_times = engine.values.start
             /\ \A v \in Range0(instance.num_vessels) :
                   LET pt == At(At(instance.processing_times, v), At(result.vessel_berths, v))
                   IN  /\ is_valid(pt)
                       /\ At(result.vessel_end_times, v) = At(result.vessel_start_times, v) + pt
        ELSE result = None

\* a FEASIBLE answer for two vessels was assembled; vessel 0 cannot use berth 0
\* and is on berth 1 with a positive duration, after waiting
C17_Witness ==
    /\ pc = "done"
    /\ engine # NotYet
    /\ engine.status = "FEASIBLE"
    /\ result.tag = "Solution"
    /\ instance.num_vessels = 2
    /\ is_invalid(At(At(instance.processing_times, 0), 0))
    /\ At(result.vessel_berths, 0) = 1
    /\ At(result.vessel_start_times, 0) > At(instance.arrival_times, 0)
    /\ At(result.vessel_end_times, 0) = At(result.vessel_start_times, 0) + 1

-----------------------------------------------------------------------------
(* The empty instance *)

\* C18: for an instance with no vessels both greedy_heuristic and solve
\* return a Solution, not None, whose berth, start, end and turnaround vectors
\* are empty and whose makespan, total turnaround and total weighted
\* turnaround are 0; solve does so without building a model or invoking the
\* engine.
C18_EmptyInstance ==
    (pc = "done" /\ instance.num_vessels = 0) =>
        /\ \A sol \in { result, greedy_heuristic(instance) } :
              /\ sol.tag = "Solution"
              /\ sol.vessel_berths = << >>
              /\ sol.vessel_start_times = << >>
              /\ sol.vessel_end_times = << >>
              /\ sol.vessel_turnaround_times = << >>
              /\ sol.vessel_weighted_turnaround_times = << >>
              /\ makespan(sol) = 0
              /\ sol.total_turnaround_time = 0
              /\ sol.total_weighted_turnaround_time = 0
        /\ model = NotYet
        /\ engine = NotYet

\* solve returned for an instance of no vessels and two berths
C18_Witness ==
    /\ pc = "done"
    /\ instance.num_vessels = 0
    /\ instance.num_berths = 2
    /\ result.tag = "Solution"
    /\ model = NotYet

-----------------------------------------------------------------------------
(* A vessel with one eligible berth *)

\* the instance run_small_test constructs: 3 vessels, 2 berths
run_small_test ==
    [num_vessels |-> 3, num_berths |-> 2,
     vessel_weights |-> << 1, 1, 1 >>,
     arrival_times |-> << 0, 5, 10 >>,
     latest_departure_times |-> << 100, 100, 100 >>,
     processing_times |-> << << 10, 12 >>,
                             << 8, INVALID_PROCESSING_TIME >>,
                             << 6, 5 >> >>,
     berth_opening_times |-> << HalfOpenInterval(0, 50), HalfOpenInterval(5, 60) >>]

\* the berths with a valid duration for vessel v
EligibleBerths(inst, v) ==
    { b \in Range0(inst.num_berths) : At(At(inst.processing_times, v), b) >= 0 }

\* in the Solution sol every vessel with exactly one eligible berth is on it
OnSoleEligibleBerth(inst, sol) ==
    \A v \in Range0(inst.num_vessels) :
        Cardinality(EligibleBerths(inst, v)) = 1
            => At(sol.vessel_berths, v) \in EligibleBerths(inst, v)

\* the model built for inst has presence indicators only for eligible pairs
OnlyEligiblePairs(inst, m) ==
    \A p \in m.pairs : p.b \in EligibleBerths(inst, p.v)

\* what greedy_heuristic returns for the instance of run_small_test, and the
\* model solve builds for it
SmallTestGreedy == greedy_heuristic(run_small_test)
SmallTestModel == BuildModel(run_small_test, TRUE, SmallTestGreedy)

\* C19: a vessel whose duration row has exactly one valid entry is on that
\* berth in every Solution greedy_heuristic returns and in every Solution
\* assembled from an assignment satisfying the model, which has no pair for an
\* ineligible berth; for the instance of run_small_test a feasible schedule
\* exists (the heuristic finds one) and vessel 1 is on berth 0.
C19_SoleEligibleBerth ==
    /\ greedy_sol.tag = "Solution" => OnSoleEligibleBerth(instance, greedy_sol)
    /\ model # NotYet => OnlyEligiblePairs(instance, model)
    /\ (pc = "done" /\ engine # NotYet /\ result.tag = "Solution")
          => OnSoleEligibleBerth(instance, result)
    /\ LET sol == SmallTestGreedy
           m == SmallTestModel
       IN  /\ sol.tag = "Solution"
           /\ FeasibleSchedule(run_small_test, sol.vessel_berths,
                               sol.vessel_start_times, sol.vessel_end_times)
           /\ EligibleBerths(run_small_test, 1) = {0}
           /\ At(sol.vessel_berths, 1) = 0
           /\ ~m.aborted
           /\ { p.b : p \in { q \in m.pairs : q.v = 1 } } = {0}
           /\ 1 \in m.exactly_one

\* the engine's answer for two vessels was assembled: vessel 0 can use berth 1
\* only and is there, while the heuristic had found no schedule
C19_Witness ==
    /\ pc = "done"
    /\ engine # NotYet
    /\ result.tag = "Solution"
    /\ instance.num_vessels = 2
    /\ EligibleBerths(instance, 0) = {1}
    /\ Cardinality(EligibleBerths(instance, 1)) = 2
    /\ At(result.vessel_berths, 0) = 1
    /\ At(result.vessel_berths, 1) = 1

-----------------------------------------------------------------------------
(* Warm-start hints *)

\* the value hinted for variable var, as a set: empty when it has no hint
HintsOf(m, var) == { h.val : h \in { x \in m.hints : x.var = var } }

\* C20: when use_hints is true and greedy_heuristic succeeded, each vessel's
\* start and berth variables are hinted with the greedy start and berth, and
\* each presence indicator (v, b) that was created is hinted 1 if the greedy
\* berth of v is b and 0 otherwise; the greedy pair is never pruned, so for
\* every vessel exactly one presence indicator is hinted 1; the hinted start
\* lies in [arrival, deadline] and the hinted berth in [0, M-1].
C20_HintsAreTheGreedySolution ==
    (model # NotYet /\ use_hints /\ greedy_sol.tag = "Solution") =>
        /\ ~model.aborted
        /\ \A v \in Range0(instance.num_vessels) :
              LET gs == At(greedy_sol.vessel_start_times, v)
                  gb == At(greedy_sol.vessel_berths, v)
              IN  /\ HintsOf(model, << "start", v, -1 >>) = {gs}
                  /\ HintsOf(model, << "berth", v, -1 >>) = {gb}
                  /\ gs \in At(instance.arrival_times, v) .. At(instance.latest_departure_times, v)
                  /\ gs \in Dom(At(model.vessel_vars, v).start)
                  /\ gb \in 0 .. (instance.num_berths - 1)
                  /\ gb \in Dom(At(model.vessel_vars, v).berth)
                  /\ \E p \in model.pairs : p.v = v /\ p.b = gb
                  /\ Cardinality({ p \in model.pairs :
                        p.v = v /\ HintsOf(model, << "pres", v, p.b >>) = {1} }) = 1
        /\ \A p \in model.pairs :
              HintsOf(model, << "pres", p.v, p.b >>) =
                  { IF At(greedy_sol.vessel_berths, p.v) = p.b THEN 1 ELSE 0 }
        /\ \A h \in model.hints :
              \/ h.var[1] \in {"start", "berth"}
              \/ \E p \in model.pairs : h.var = << "pres", p.v, p.b >>

\* hints were added for two vessels that can each use both berths; the greedy
\* put them on different berths
C20_Witness ==
    /\ model # NotYet
    /\ use_hints
    /\ greedy_sol.tag = "Solution"
    /\ instance.num_vessels = 2
    /\ Cardinality({ p \in model.pairs : p.v = 0 }) = 2
    /\ Cardinality({ p \in model.pairs : p.v = 1 }) = 2
    /\ At(greedy_sol.vessel_berths, 0) # At(greedy_sol.vessel_berths, 1)
    /\ HintsOf(model, << "pres", 1, At(greedy_sol.vessel_berths, 0) >>) = {0}

-----------------------------------------------------------------------------
(* greedy_heuristic: order, choice and failure *)

\* vessel v comes before vessel w in ascending (deadline, arrival) order, equal
\* keys in ascending index
Before(inst, v, w) ==
    LET dv == inst.latest_departure_times[v + 1]
        dw == inst.latest_departure_times[w + 1]
        av == inst.arrival_times[v + 1]
        aw == inst.arrival_times[w + 1]
    IN  \/ dv < dw
        \/ dv = dw /\ av < aw
        \/ dv = dw /\ av = aw /\ v < w

\* order lists every vessel once, in that order
IsPriorityOrder(inst, order) ==
    /\ Len(order) = inst.num_vessels
    /\ { order[i] : i \in 1 .. Len(order) } = Range0(inst.num_vessels)
    /\ \A i, j \in 1 .. Len(order) : i < j => Before(inst, order[i], order[j])

\* the candidate of vessel v on berth b under the cursors free
CandidateStart(inst, free, v, b) ==
    LET a == inst.arrival_times[v + 1]
        f == free[b + 1]
        o == inst.berth_opening_times[b + 1].start_inclusive
    IN  CHOOSE x \in {a, f, o} : x >= a /\ x >= f /\ x >= o

CandidateEnd(inst, free, v, b) ==
    CandidateStart(inst, free, v, b) + inst.processing_times[v + 1][b + 1]

\* the berths whose candidate is feasible for vessel v
FeasibleBerths(inst, free, v) ==
    { b \in Range0(inst.num_berths) :
        /\ inst.processing_times[v + 1][b + 1] >= 0
        /\ CandidateEnd(inst, free, v, b) <= inst.berth_opening_times[b + 1].end_exclusive
        /\ CandidateEnd(inst, free, v, b) <= inst.latest_departure_times[v + 1] }

\* one commit of the loop: position k of the order has been processed
CommitStep == pc = "greedy_loop" /\ pc' = "greedy_loop" /\ k' = k + 1

\* the choice the claim prescribes was committed for the vessel at position k
PrescribedChoice ==
    LET v == sorted_vessels[k + 1]
        fb == FeasibleBerths(instance, berth_free_times, v)
        b == v_berths'[v + 1]
    IN  /\ b \in fb
        /\ \A c \in fb : CandidateEnd(instance, berth_free_times, v, b)
                            <= CandidateEnd(instance, berth_free_times, v, c)
        /\ \A c \in fb : CandidateEnd(instance, berth_free_times, v, c)
                            = CandidateEnd(instance, berth_free_times, v, b) => b <= c
        /\ v_starts'[v + 1] = CandidateStart(instance, berth_free_times, v, b)
        /\ v_ends'[v + 1] = CandidateEnd(instance, berth_free_times, v, b)

AtVessel == pc = "greedy_loop" /\ k < Len(sorted_vessels)

\* the loop has run out of vessels
PastLastVessel == pc = "greedy_loop" /\ k = Len(sorted_vessels)

\* C22: greedy_heuristic returns None exactly when the vessel it has reached
\* has no berth with a valid duration whose candidateEnd respects the window
\* end and the deadline under the cursors at that point, and it stops there;
\* otherwise the vessel is committed, and once every vessel has been
\* committed a Solution holding the committed lists is returned, its
\* construction never raising.
C22_GreedyFailsExactlyWithoutCandidate ==
    [][ /\ AtVessel =>
             LET none == FeasibleBerths(instance, berth_free_times,
                                        sorted_vessels[k + 1]) = {}
             IN  /\ none <=> (pc' = "greedy_returned" /\ greedy_sol' = None)
                 /\ ~none <=> CommitStep
        /\ PastLastVessel =>
             /\ NewSolution(v_berths, v_starts, v_ends, instance.vessel_weights,
                            instance.arrival_times).tag = "Solution"
             /\ pc' = "greedy_returned"
             /\ greedy_sol'.tag = "Solution"
             /\ greedy_sol'.vessel_berths = v_berths
             /\ greedy_sol'.vessel_start_times = v_starts
             /\ greedy_sol'.vessel_end_times = v_ends
        /\ (pc' = "greedy_returned" /\ greedy_sol' # None) =>
             \/ instance.num_vessels = 0
             \/ PastLastVessel /\ IsPriorityOrder(instance, sorted_vessels) ]_vars

\* the first vessel was committed and the second one has no feasible
\* candidate left: None is returned
C22_Witness ==
    /\ pc = "greedy_returned"
    /\ greedy_sol = None
    /\ instance.num_vessels = 2
    /\ k = 1
    /\ FeasibleBerths(instance, GreedyInitial(instance).free, sorted_vessels[2]) # {}
    /\ FeasibleBerths(instance, berth_free_times, sorted_vessels[2]) = {}

-----------------------------------------------------------------------------
(* greedy_heuristic: the berth cursors *)

\* the vessels committed so far, and those of them on berth b
Committed == { sorted_vessels[i] : i \in 1 .. k }

CommittedOn(berths, vs, b) == { v \in vs : berths[v + 1] = b }

\* the cursor of berth b is the largest end committed on it, or the start of
\* its window when nothing is committed on it
CursorIsLastEnd(free, berths, ends, vs, b) ==
    LET on == CommittedOn(berths, vs, b)
    IN  IF on = {}
        THEN free[b + 1] = instance.berth_opening_times[b + 1].start_inclusive
        ELSE /\ \E v \in on : free[b + 1] = ends[v + 1]
             /\ \A v \in on : free[b + 1] >= ends[v + 1]

\* C28: in greedy_heuristic every cursor starts at the start of its berth's
\* window and never decreases; after a commit the cursor of the chosen berth
\* is the end of the vessel just committed, which is the largest end committed
\* on that berth; a commit changes only that cursor and only that vessel's
\* berth, start and end; the committed start is at or after every end already
\* committed on the same berth.
C28_CursorInvariant ==
    [][ /\ (pc = "greedy" /\ pc' = "greedy_loop") =>
             \A b \in Range0(instance.num_berths) :
                 berth_free_times'[b + 1]
                     = instance.berth_opening_times[b + 1].start_inclusive
        /\ (pc = "greedy_loop") =>
             \A b \in Range0(instance.num_berths) :
                 berth_free_times'[b + 1] >= berth_free_times[b + 1]
        /\ CommitStep =>
             LET v == sorted_vessels[k + 1]
                 b == v_berths'[v + 1]
             IN  /\ berth_free_times'[b + 1] = v_ends'[v + 1]
                 /\ \A c \in Range0(instance.num_berths) :
                        /\ c # b => berth_free_times'[c + 1] = berth_free_times[c + 1]
                        /\ CursorIsLastEnd(berth_free_times', v_berths', v_ends',
                                           Committed \cup {v}, c)
                 /\ \A w \in Range0(instance.num_vessels) \ {v} :
                        /\ v_berths'[w + 1] = v_berths[w + 1]
                        /\ v_starts'[w + 1] = v_starts[w + 1]
                        /\ v_ends'[w + 1] = v_ends[w + 1]
                 /\ \A w \in CommittedOn(v_berths, Committed, b) :
                        v_starts'[v + 1] >= v_ends[w + 1] ]_vars

\* two vessels are committed on the same berth, the second one after the
\* first, and the cursor has moved from the window start to the second end
C28_Witness ==
    /\ pc = "greedy_loop"
    /\ k = 2
    /\ v_berths[1] = v_berths[2]
    /\ v_starts[sorted_vessels[2] + 1] = v_ends[sorted_vessels[1] + 1]
    /\ v_ends[sorted_vessels[2] + 1] > v_starts[sorted_vessels[2] + 1]
    /\ berth_free_times[v_berths[1] + 1] = v_ends[sorted_vessels[2] + 1]
    /\ berth_free_times[v_berths[1] + 1]
          > instance.berth_opening_times[v_berths[1] + 1].start_inclusive

-----------------------------------------------------------------------------
(* greedy_heuristic: failure without infeasibility *)

\* two vessels share one berth open over [0, 5); vessel 0 arrives at 0 with
\* deadline 4 and needs 2, vessel 1 arrives at 2 with deadline 3 and needs 1
TightBerth ==
    NewInstance(2, 1, << 1, 1 >>, << 0, 2 >>, << 4, 3 >>, << << 2 >>, << 1 >> >>,
                << HalfOpenInterval(0, 5) >>)

TightBerthGreedy == greedy_heuristic(TightBerth)

TightBerthAnswers == SatAssignments(BuildModel(TightBerth, TRUE, TightBerthGreedy))

\* the same shape within the bounds of the state space: the berth is open over
\* [0, 1), vessel 0 arrives at 0 with deadline 2 and needs 1, vessel 1 arrives
\* at 1 with deadline 1 and needs 0
TightBerthSmall ==
    NewInstance(2, 1, << 1, 1 >>, << 0, 1 >>, << 2, 1 >>, << << 1 >>, << 0 >> >>,
                << HalfOpenInterval(0, 1) >>)

\* C23: a None of greedy_heuristic is no proof of infeasibility: there are
\* valid instances, two vessels on one berth with the earlier-deadline vessel
\* arriving later, where greedy_heuristic returns None although a feasible
\* schedule exists and the model solve builds is satisfiable.
C23_GreedyFailureWithFeasibleSchedule ==
    /\ TightBerthGreedy = None
    /\ FeasibleSchedule(TightBerth, << 0, 0 >>, << 0, 2 >>, << 2, 3 >>)
    /\ \E a \in TightBerthAnswers : a.berth = << 0, 0 >> /\ a.start = << 0, 2 >>
    /\ (instance = TightBerthSmall /\ pc \in {"solve_build", "solve_run", "done"})
          => /\ greedy_sol = None
             /\ FeasibleSchedules(instance) # {}
    /\ (instance = TightBerthSmall /\ pc \in {"solve_run", "done"})
          => /\ ModelBuilt
             /\ SatAssignments(model) # {}
    /\ (instance = TightBerthSmall /\ pc = "done")
          => /\ engine.tag = "answer"
             /\ engine.status # "INFEASIBLE"
             /\ AnswerHasValues
                   => FeasibleSchedule(instance, result.vessel_berths,
                                       result.vessel_start_times,
                                       result.vessel_end_times)

\* solve has run on such an instance: the heuristic returned None and the
\* engine found the schedule that serves the later-deadline vessel first
C23_Witness ==
    /\ instance = TightBerthSmall
    /\ pc = "done"
    /\ greedy_sol = None
    /\ engine.tag = "answer"
    /\ engine.status = "FEASIBLE"
    /\ result.tag = "Solution"
    /\ result.vessel_start_times = << 0, 1 >>
    /\ result.vessel_end_times = << 1, 1 >>

-----------------------------------------------------------------------------
(* solve: the horizon and the domains *)

\* the least element of a non-empty set of integers
Least(S) == CHOOSE x \in S : \A y \in S : x <= y

\* C24: the horizon solve computes is never below any vessel's deadline, so
\* min(horizon, deadline) is the deadline and the domain created for a vessel's
\* start, [arrival, deadline], is [arrival, min(horizon, deadline)]; the berth
\* decision ranges over [0, M-1]; every present interval of an engine answer
\* ends no later than min(horizon, deadline, window end).
C24_HorizonCoversDeadlines ==
    /\ HorizonComputed =>
          \A v \in 1 .. instance.num_vessels :
              /\ horizon >= instance.latest_departure_times[v]
              /\ Least({horizon, instance.latest_departure_times[v]})
                    = instance.latest_departure_times[v]
    /\ (HorizonComputed /\ ModelBuilt) =>
          \A v \in 1 .. Len(model.vessel_vars) :
              /\ Dom(model.vessel_vars[v].start)
                    = instance.arrival_times[v]
                        .. Least({horizon, instance.latest_departure_times[v]})
              /\ Dom(model.vessel_vars[v].berth) = 0 .. (instance.num_berths - 1)
    /\ AnswerHasValues =>
          \A c \in engine.values.loc :
              c.pres => c.le <= Least({horizon,
                                       instance.latest_departure_times[c.v + 1],
                                       instance.berth_opening_times[c.b + 1].end_exclusive})

\* the horizon was raised to the largest deadline, and the engine's answer has a
\* present interval ending exactly there
C24_Witness ==
    /\ pc = "done"
    /\ AnswerHasValues
    /\ horizon > HorizonFormula(instance)
    /\ instance.num_vessels = 2
    /\ \E c \in engine.values.loc :
          /\ c.pres
          /\ c.le = horizon
          /\ c.le = instance.latest_departure_times[c.v + 1]
          /\ c.le > c.ls

-----------------------------------------------------------------------------
(* ProcessingTime arithmetic: the invalid results *)

\* C25: every invalid ProcessingTime that an arithmetic operator (+, -, *, //,
\* the reflected forms included) produces is the sentinel
\* INVALID_PROCESSING_TIME; and every operator applied to two valid operands,
\* division by zero apart, produces a valid ProcessingTime.
C25_SingleInvalidValue ==
    (pc = "done" /\ result.tag = "ProcessingTime") =>
        /\ is_invalid(result.time) => result = PT(INVALID_PROCESSING_TIME)
        /\ ( /\ is_valid(args.a)
             /\ is_valid(args.b.time)
             /\ ~(args.op = "//" /\ args.b.time = 0) )
              => is_valid(result.time)

-----------------------------------------------------------------------------
(* HalfOpenInterval: intersection and adjacency *)

\* the integers of interval x
PointsOf(x) == { t \in Probes : x.start_inclusive <= t /\ t < x.end_exclusive }

\* C26: x.intersection(y) returns an interval exactly when x.overlaps(y) and
\* None otherwise; the interval is [max(starts), min(ends)), its construction
\* never raises, y.intersection(x) is the same, and an integer is in it if and
\* only if it is in both x and y.
C26_IntersectionIsTheCommonPart ==
    pc = "intersected" =>
        /\ (result.tag = "HalfOpenInterval") <=> overlaps(args.x, args.y)
        /\ (result = None) <=> ~overlaps(args.x, args.y)
        /\ result = intersection(args.y, args.x)
        /\ (result # None) =>
              /\ result.start_inclusive
                    = CHOOSE s \in {args.x.start_inclusive, args.y.start_inclusive} :
                         s >= args.x.start_inclusive /\ s >= args.y.start_inclusive
              /\ result.end_exclusive
                    = Least({args.x.end_exclusive, args.y.end_exclusive})
              /\ result.start_inclusive <= result.end_exclusive
              /\ PointsOf(result) = PointsOf(args.x) \cap PointsOf(args.y)
              /\ (args.t \in PointsOf(result))
                    <=> (contains(args.x, args.t) /\ contains(args.y, args.t))

\* two intervals that cross were intersected: the result is the stretch they share
C26_Witness ==
    /\ pc = "intersected"
    /\ args.x = HalfOpenInterval(0, 2)
    /\ args.y = HalfOpenInterval(1, 2)
    /\ result = HalfOpenInterval(1, 2)
    /\ args.t = 1

\* some integer is contained in both x and y
SharePoint(x, y) == \E t \in Probes : contains(x, t) /\ contains(y, t)

\* C27 as stated: x.overlaps(y) is true if and only if some integer is
\* contained in both x and y, empty intervals included; equivalently, an
\* interval returned by intersection is never empty.
C27_OverlapsIffCommonPoint ==
    /\ pc = "overlapped" => (result <=> SharePoint(args.x, args.y))
    /\ (pc = "intersected" /\ result # None) => ~is_empty(result)

\* an empty interval lies strictly inside the other one
StrictlyInside(x, y) ==
    /\ is_empty(x)
    /\ y.start_inclusive < x.start_inclusive
    /\ x.start_inclusive < y.end_exclusive

\* C27 amended: x.overlaps(y) is true if and only if some integer is contained
\* in both x and y, or one of the two is empty and lies strictly inside the
\* other; in the second case alone the interval intersection returns is empty.
C27_OverlapsIffCommonPointOrInside ==
    /\ pc = "overlapped" =>
          (result <=> \/ SharePoint(args.x, args.y)
                      \/ StrictlyInside(args.x, args.y)
                      \/ StrictlyInside(args.y, args.x))
    /\ (pc = "overlapped" /\ ~is_empty(args.x) /\ ~is_empty(args.y)) =>
          (result <=> SharePoint(args.x, args.y))
    /\ (pc = "intersected" /\ result # None) =>
          (is_empty(result) <=> \/ StrictlyInside(args.x, args.y)
                                \/ StrictlyInside(args.y, args.x))

\* the empty interval [1, 1) was found to overlap [0, 2), with which it shares
\* no integer
C27_Witness ==
    /\ pc = "overlapped"
    /\ args.x = HalfOpenInterval(1, 1)
    /\ args.y = HalfOpenInterval(0, 2)
    /\ result = TRUE
    /\ ~SharePoint(args.x, args.y)

\* C29: adjacency and overlap exclude each other: when x.adjacent(y), one
\* interval's end being the other's start, x.overlaps(y) is false; and
\* x.adjacent(y) = y.adjacent(x).
C29_AdjacentExcludesOverlap ==
    pc = "adjoined" =>
        /\ result <=> (\/ args.x.end_exclusive = args.y.start_inclusive
                       \/ args.y.end_exclusive = args.x.start_inclusive)
        /\ result => ~overlaps(args.x, args.y)
        /\ result = adjacent(args.y, args.x)

\* [1, 2) was found adjacent to [0, 1), which ends where it starts
C29_Witness ==
    /\ pc = "adjoined"
    /\ args.x = HalfOpenInterval(1, 2)
    /\ args.y = HalfOpenInterval(0, 1)
    /\ result = TRUE
    /\ ~overlaps(args.x, args.y)

====
